---- MODULE Spec2Model ----
(***************************************************************************)
(* Shapes, tiling patterns and their callers in geometry_engine.py and     *)
(* web_api.py, as a state machine: the live shape object, the live tiling  *)
(* pattern (tiles and stored bounds included) and the record of the last   *)
(* call made.                                                              *)
(*                                                                         *)
(* Numbers.  Python floats are IEEE-754 binary floating point: every       *)
(* arithmetic result is rounded to the nearest representable value, ties   *)
(* to even.  The model keeps that rule and the binary radix but carries    *)
(* MantBits significant bits instead of 53, so that values fit the model   *)
(* checker's integers.  A float is held as an integer c standing for       *)
(* c / 2^FracBits.  The exponent range is kept small in the same way: a    *)
(* result of magnitude 2^MaxExp or more overflows to an infinity, as one   *)
(* of magnitude 2^1024 or more does in Python, and the operations follow   *)
(* the IEEE-754 rules for infinities and NaN.                              *)
(***************************************************************************)
EXTENDS Integers, Sequences, FiniteSets, TLC

\* ---------------------------------------------------------------- bounds
MantBits == 8
MaxDim == 3
MaxExp == 12

FracBits == MantBits + 6
One == 2 ^ FracBits

\* ------------------------------------------------- floating point layer
Abs(n) == IF n < 0 THEN 0 - n ELSE n
Sign(n) == IF n < 0 THEN 0 - 1 ELSE 1
Max2(a, b) == IF a >= b THEN a ELSE b

\* float("inf") and float("nan"): every finite float lies strictly between
\* -Inf and Inf
Inf == 2 ^ (FracBits + MaxExp)
NaN == Inf + 1
IsFinite(x) == Abs(x) < Inf

\* number of significant bits of a positive integer below 2^30, found by
\* halving the range
BitLen(n) ==
    IF n < 2 ^ 15
    THEN IF n < 2 ^ 8
         THEN IF n < 2 ^ 4
              THEN IF n < 2 ^ 2
                   THEN IF n < 2 ^ 1
                        THEN 1
                        ELSE 2
                   ELSE IF n < 2 ^ 3
                        THEN 3
                        ELSE 4
              ELSE IF n < 2 ^ 6
                   THEN IF n < 2 ^ 5
                        THEN 5
                        ELSE 6
                   ELSE IF n < 2 ^ 7
                        THEN 7
                        ELSE 8
         ELSE IF n < 2 ^ 12
              THEN IF n < 2 ^ 10
                   THEN IF n < 2 ^ 9
                        THEN 9
                        ELSE 10
                   ELSE IF n < 2 ^ 11
                        THEN 11
                        ELSE 12
              ELSE IF n < 2 ^ 14
                   THEN IF n < 2 ^ 13
                        THEN 13
                        ELSE 14
                   ELSE 15
    ELSE IF n < 2 ^ 23
         THEN IF n < 2 ^ 19
              THEN IF n < 2 ^ 17
                   THEN IF n < 2 ^ 16
                        THEN 16
                        ELSE 17
                   ELSE IF n < 2 ^ 18
                        THEN 18
                        ELSE 19
              ELSE IF n < 2 ^ 21
                   THEN IF n < 2 ^ 20
                        THEN 20
                        ELSE 21
                   ELSE IF n < 2 ^ 22
                        THEN 22
                        ELSE 23
         ELSE IF n < 2 ^ 27
              THEN IF n < 2 ^ 25
                   THEN IF n < 2 ^ 24
                        THEN 24
                        ELSE 25
                   ELSE IF n < 2 ^ 26
                        THEN 26
                        ELSE 27
              ELSE IF n < 2 ^ 29
                   THEN IF n < 2 ^ 28
                        THEN 28
                        ELSE 29
                   ELSE 30

\* number of trailing zero bits of a positive integer below 2^30
TrailZ(n) ==
    IF n % (2 ^ 15) = 0
    THEN IF n % (2 ^ 22) = 0
         THEN IF n % (2 ^ 26) = 0
              THEN IF n % (2 ^ 28) = 0
                   THEN IF n % (2 ^ 29) = 0
                        THEN 29
                        ELSE 28
                   ELSE IF n % (2 ^ 27) = 0
                        THEN 27
                        ELSE 26
              ELSE IF n % (2 ^ 24) = 0
                   THEN IF n % (2 ^ 25) = 0
                        THEN 25
                        ELSE 24
                   ELSE IF n % (2 ^ 23) = 0
                        THEN 23
                        ELSE 22
         ELSE IF n % (2 ^ 18) = 0
              THEN IF n % (2 ^ 20) = 0
                   THEN IF n % (2 ^ 21) = 0
                        THEN 21
                        ELSE 20
                   ELSE IF n % (2 ^ 19) = 0
                        THEN 19
                        ELSE 18
              ELSE IF n % (2 ^ 16) = 0
                   THEN IF n % (2 ^ 17) = 0
                        THEN 17
                        ELSE 16
                   ELSE 15
    ELSE IF n % (2 ^ 7) = 0
         THEN IF n % (2 ^ 11) = 0
              THEN IF n % (2 ^ 13) = 0
                   THEN IF n % (2 ^ 14) = 0
                        THEN 14
                        ELSE 13
                   ELSE IF n % (2 ^ 12) = 0
                        THEN 12
                        ELSE 11
              ELSE IF n % (2 ^ 9) = 0
                   THEN IF n % (2 ^ 10) = 0
                        THEN 10
                        ELSE 9
                   ELSE IF n % (2 ^ 8) = 0
                        THEN 8
                        ELSE 7
         ELSE IF n % (2 ^ 3) = 0
              THEN IF n % (2 ^ 5) = 0
                   THEN IF n % (2 ^ 6) = 0
                        THEN 6
                        ELSE 5
                   ELSE IF n % (2 ^ 4) = 0
                        THEN 4
                        ELSE 3
              ELSE IF n % (2 ^ 1) = 0
                   THEN IF n % (2 ^ 2) = 0
                        THEN 2
                        ELSE 1
                   ELSE 0

\* the float q * 2^sh / 2^FracBits, an infinity if that overflows (q > 0)
Scaled(q, sh) ==
    IF BitLen(q) + sh > FracBits + MaxExp THEN Inf ELSE q * (2 ^ sh)

\* the float nearest to a / 2^k once the d low bits of a > 0 are rounded
\* away, ties to even
RoundMagnitude(a, k, d) ==
    Scaled(IF /\ d > 0
              /\ \/ a % (2 ^ d) > 2 ^ (d - 1)
                 \/ (a % (2 ^ d) = 2 ^ (d - 1) /\ (a \div (2 ^ d)) % 2 = 1)
           THEN a \div (2 ^ d) + 1
           ELSE a \div (2 ^ d),
           d - k + FracBits)

\* the float nearest to n / 2^k, an infinity if that overflows: the low
\* bits that a float cannot hold are rounded away
RoundTo(n, k) ==
    IF n = 0 THEN 0
    ELSE Sign(n) * RoundMagnitude(Abs(n), k,
                       Max2(Max2(BitLen(Abs(n)) - MantBits, k - FracBits), 0))

\* the float nearest to (n / d) * 2^e, the quotient n * 2^s / d being
\* made odd where the division leaves a remainder
RoundQuotient(n, d, e, s) ==
    RoundTo(2 * ((n * (2 ^ s)) \div d)
            + (IF (n * (2 ^ s)) % d = 0 THEN 0 ELSE 1),
            s + 1 - e)

\* the float nearest to (n / d) * 2^e  (n > 0, d > 0): the quotient is
\* taken with two bits more than a float holds
RoundRatE(n, d, e) ==
    RoundQuotient(n, d, e, Max2(0, MantBits + 2 + BitLen(d) - BitLen(n)))

\* a float literal num / den
Flt(num, den) == IF num = 0 THEN 0 ELSE Sign(num) * RoundRatE(Abs(num), den, 0)
FromInt(n) == RoundTo(n, 0)

\* inf + -inf is nan
Add(a, b) ==
    IF a = NaN \/ b = NaN THEN NaN
    ELSE IF ~IsFinite(a) THEN (IF ~IsFinite(b) /\ b # a THEN NaN ELSE a)
    ELSE IF ~IsFinite(b) THEN b
    ELSE RoundTo(a + b, FracBits)

Sub(a, b) == Add(a, IF b = NaN THEN NaN ELSE 0 - b)

\* inf * 0 is nan; the factors are multiplied without their trailing zero
\* bits
Mul(a, b) ==
    IF a = NaN \/ b = NaN THEN NaN
    ELSE IF ~IsFinite(a) \/ ~IsFinite(b)
    THEN (IF a = 0 \/ b = 0 THEN NaN ELSE Sign(a) * Sign(b) * Inf)
    ELSE IF a = 0 \/ b = 0 THEN 0
    ELSE Sign(a) * Sign(b) *
         RoundTo((Abs(a) \div (2 ^ TrailZ(Abs(a))))
                 * (Abs(b) \div (2 ^ TrailZ(Abs(b)))),
                 2 * FracBits - TrailZ(Abs(a)) - TrailZ(Abs(b)))

\* b # 0; Python raises ZeroDivisionError otherwise, which callers model;
\* inf / inf is nan
Div(a, b) ==
    IF a = NaN \/ b = NaN THEN NaN
    ELSE IF ~IsFinite(a)
    THEN (IF ~IsFinite(b) THEN NaN ELSE Sign(a) * Sign(b) * Inf)
    ELSE IF a = 0 \/ ~IsFinite(b) THEN 0
    ELSE Sign(a) * Sign(b) *
         RoundRatE(Abs(a) \div (2 ^ TrailZ(Abs(a))),
                   Abs(b) \div (2 ^ TrailZ(Abs(b))),
                   TrailZ(Abs(a)) - TrailZ(Abs(b)))

\* math.floor of a float, as an integer
Floor(a) == a \div One

\* a <= b and a < b: false where either is nan
LessEq(a, b) == a # NaN /\ b # NaN /\ a <= b
Less(a, b) == a # NaN /\ b # NaN /\ a < b

\* min(a, b) of Python: b if b < a, else a
PyMin(a, b) == IF Less(b, a) THEN b ELSE a

\* x ** n for a small non-negative integer n, by repeated multiplication
RECURSIVE Pow(_, _)
Pow(x, n) == IF n = 0 THEN One ELSE Mul(Pow(x, n - 1), x)

\* pow(x, n) and x ** n raise OverflowError where the power of a finite x
\* overflows
PowRaises(x, n) == IsFinite(x) /\ ~IsFinite(Pow(x, n))

\* ------------------------------------------------------ float constants
Half == Flt(1, 2)
Two == FromInt(2)
MinusOne == FromInt(0 - 1)
Pi == Flt(355, 113)                  \* math.pi
\* math.sqrt of the small integers the engine takes roots of
SqrtInt(n) ==
    CASE n = 1 -> One
      [] n = 2 -> Flt(14142, 10000)
      [] n = 3 -> Flt(17321, 10000)
      [] n = 4 -> Two
      [] n = 5 -> Flt(22361, 10000)
      [] OTHER -> Flt(24495, 10000)

\* ------------------------------------------------------------- sequences
\* the lists of ss one after the other, by halves
RECURSIVE Flatten(_)
Flatten(ss) ==
    IF ss = <<>> THEN <<>>
    ELSE IF Len(ss) = 1 THEN ss[1]
    ELSE Flatten(SubSeq(ss, 1, Len(ss) \div 2))
         \o Flatten(SubSeq(ss, Len(ss) \div 2 + 1, Len(ss)))

RECURSIVE SeqProd(_)
SeqProd(s) == IF s = <<>> THEN One ELSE Mul(Head(s), SeqProd(Tail(s)))

\* ---------------------------------------------------------------- shapes
NoShape == [cls |-> "None"]

Returned(v) == [err |-> "", ok |-> TRUE, val |-> v]
Raised(e) == [err |-> e, ok |-> FALSE, val |-> NoShape]

\* validate_parameters of each class: the error it raises, "" if none
HyperSphere_validate_parameters(parameters) ==
    IF Len(parameters) # 1
    THEN "HyperSphere requires exactly one parameter (radius)"
    ELSE IF parameters[1] <= 0 THEN "Radius must be positive" ELSE ""

HyperCube_validate_parameters(parameters) ==
    IF Len(parameters) # 1
    THEN "HyperCube requires exactly one parameter (side length)"
    ELSE IF parameters[1] <= 0 THEN "Side length must be positive" ELSE ""

Simplex_validate_parameters(parameters) ==
    IF Len(parameters) # 1
    THEN "Simplex requires exactly one parameter (side length)"
    ELSE IF parameters[1] < 0 THEN "Side length cannot be negative" ELSE ""

HyperPyramid_validate_parameters(parameters) ==
    IF Len(parameters) # 2
    THEN "HyperPyramid requires exactly two parameters (base_side_length, height)"
    ELSE IF parameters[1] < 0 \/ parameters[2] < 0
         THEN "Base side length and height cannot be negative" ELSE ""

HyperEllipsoid_validate_parameters(dimensions, parameters) ==
    IF Len(parameters) # dimensions
    THEN "HyperEllipsoid requires exactly n parameters (semi-axes)"
    ELSE IF \E i \in 1..Len(parameters) : parameters[i] <= 0
         THEN "Semi-axes must be positive" ELSE ""

validate_parameters(cls, dimensions, parameters) ==
    CASE cls = "HyperSphere" -> HyperSphere_validate_parameters(parameters)
      [] cls = "OriginalSphere" -> HyperSphere_validate_parameters(parameters)
      [] cls = "HyperCube" -> HyperCube_validate_parameters(parameters)
      [] cls = "Simplex" -> Simplex_validate_parameters(parameters)
      [] cls = "HyperPyramid" -> HyperPyramid_validate_parameters(parameters)
      [] OTHER -> HyperEllipsoid_validate_parameters(dimensions, parameters)

\* NDShape.__init__: the dimension check, then validate_parameters
NDShape_init(cls, dimensions, parameters) ==
    IF dimensions < 1 THEN "Dimensions must be positive"
    ELSE validate_parameters(cls, dimensions, parameters)

\* the constructors: what each stores on the object once NDShape.__init__
\* has returned
Initialised(e, self) == IF e # "" THEN Raised(e) ELSE Returned(self)

HyperSphere_init(dimensions, radius) ==
    Initialised(NDShape_init("HyperSphere", dimensions, <<radius>>),
                [cls |-> "HyperSphere", parameters |-> <<radius>>,
                 dimensions |-> dimensions, radius |-> radius])

HyperCube_init(dimensions, side_length) ==
    Initialised(NDShape_init("HyperCube", dimensions, <<side_length>>),
                [cls |-> "HyperCube", parameters |-> <<side_length>>,
                 dimensions |-> dimensions, side_length |-> side_length])

Simplex_init(dimensions, side_length) ==
    Initialised(NDShape_init("Simplex", dimensions, <<side_length>>),
                [cls |-> "Simplex", parameters |-> <<side_length>>,
                 dimensions |-> dimensions, side_length |-> side_length])

HyperPyramid_init(dimensions, base_side_length, height) ==
    Initialised(NDShape_init("HyperPyramid", dimensions,
                             <<base_side_length, height>>),
                [cls |-> "HyperPyramid", parameters |-> <<base_side_length, height>>,
                 dimensions |-> dimensions,
                 base_side_length |-> base_side_length,
                 height |-> height])

HyperEllipsoid_init(dimensions, semi_axes) ==
    IF Len(semi_axes) # dimensions
    THEN Raised("HyperEllipsoid requires exactly n semi-axes")
    ELSE Initialised(NDShape_init("HyperEllipsoid", dimensions, semi_axes),
                     [cls |-> "HyperEllipsoid", parameters |-> semi_axes,
                      dimensions |-> dimensions, semi_axes |-> semi_axes])

\* super().__init__(3, diameter / 2), then self.diameter = diameter
OriginalSphere_init(diameter) ==
    Initialised(NDShape_init("OriginalSphere", 3, <<Div(diameter, Two)>>),
                [cls |-> "OriginalSphere",
                 parameters |-> <<Div(diameter, Two)>>,
                 dimensions |-> 3, radius |-> Div(diameter, Two),
                 diameter |-> diameter])

\* OriginalSphere.set_diameter forgetting self.parameters
set_diameter_stale_parameters(self, new_diameter) ==
    IF new_diameter < 0 THEN [err |-> "Diameter cannot be negative", ok |-> FALSE,
                              val |-> self]
    ELSE Returned([self EXCEPT !.diameter = new_diameter,
                               !.radius = Div(new_diameter, Two)])

\* OriginalSphere.set_diameter
set_diameter(self, new_diameter) ==
    IF new_diameter < 0 THEN [err |-> "Diameter cannot be negative", ok |-> FALSE,
                              val |-> self]
    ELSE Returned([self EXCEPT !.diameter = new_diameter,
                               !.radius = Div(new_diameter, Two),
                               !.parameters = <<Div(new_diameter, Two)>>])

\* NDShape.unit_sphere_volume
RECURSIVE DivideDown(_, _, _)
DivideDown(result, i, step) ==
    IF i < 1 THEN result ELSE DivideDown(Div(result, FromInt(i)), i - step, step)

RECURSIVE DivideUp(_, _, _)
DivideUp(result, i, last) ==
    IF i > last THEN result ELSE DivideUp(Div(result, FromInt(i)), i + 1, last)

unit_sphere_volume(n) ==
    IF n % 2 = 0
    THEN DivideUp(Pow(Pi, n \div 2), 1, n \div 2)
    ELSE DivideDown(Mul(Pow(Two, (n + 1) \div 2), Pow(Pi, (n - 1) \div 2)),
                    n, 2)

RECURSIVE Factorial(_)
Factorial(n) == IF n <= 1 THEN 1 ELSE n * Factorial(n - 1)

HyperSphere_get_volume(self) ==
    Mul(unit_sphere_volume(self.dimensions), Pow(self.radius, self.dimensions))

HyperCube_get_volume(self) == Pow(self.side_length, self.dimensions)

Simplex_get_volume(self) ==
    CASE self.dimensions = 1 -> self.side_length
      [] self.dimensions = 2 ->
            Mul(Div(SqrtInt(3), FromInt(4)), Pow(self.side_length, 2))
      [] self.dimensions = 3 ->
            Mul(Div(SqrtInt(2), FromInt(12)), Pow(self.side_length, 3))
      [] OTHER ->
            Mul(Div(SqrtInt(self.dimensions + 1),
                    FromInt((2 ^ self.dimensions) * Factorial(self.dimensions))),
                Pow(self.side_length, self.dimensions))

HyperPyramid_get_volume(self) ==
    CASE self.dimensions = 1 -> self.base_side_length
      [] self.dimensions = 2 ->
            Mul(Mul(Half, self.base_side_length), self.height)
      [] self.dimensions = 3 ->
            Mul(Mul(Div(One, FromInt(3)), Pow(self.base_side_length, 2)),
                self.height)
      [] OTHER ->
            Mul(Mul(Div(One, FromInt(self.dimensions)),
                    Pow(self.base_side_length, self.dimensions - 1)),
                self.height)

HyperEllipsoid_get_volume(self) ==
    Mul(unit_sphere_volume(self.dimensions), SeqProd(self.semi_axes))

get_volume(self) ==
    CASE self.cls \in {"HyperSphere", "OriginalSphere"} ->
            HyperSphere_get_volume(self)
      [] self.cls = "HyperCube" -> HyperCube_get_volume(self)
      [] self.cls = "Simplex" -> Simplex_get_volume(self)
      [] self.cls = "HyperPyramid" -> HyperPyramid_get_volume(self)
      [] OTHER -> HyperEllipsoid_get_volume(self)

\* get_volume raises OverflowError where the power it takes overflows; the
\* products overflow to inf without raising
get_volume_raises(self) ==
    CASE self.cls \in {"HyperSphere", "OriginalSphere"} ->
            PowRaises(self.radius, self.dimensions)
      [] self.cls = "HyperCube" -> PowRaises(self.side_length, self.dimensions)
      [] self.cls = "Simplex" ->
            self.dimensions >= 2 /\ PowRaises(self.side_length, self.dimensions)
      [] self.cls = "HyperPyramid" ->
            /\ self.dimensions >= 3
            /\ PowRaises(self.base_side_length,
                         IF self.dimensions = 3 THEN 2 ELSE self.dimensions - 1)
      [] OTHER -> FALSE

isinstance(obj, cls) ==
    \/ obj.cls = cls
    \/ cls = "HyperSphere" /\ obj.cls = "OriginalSphere"

\* -------------------------------------------------------- tiling patterns
NoPattern == [pattern_type |-> "None"]

\* TilingPattern.__init__ (bounds = None is bounds_none; tiles = [])
TilingPattern_init(dimensions, base_shape, pattern_type) ==
    [dimensions |-> dimensions, pattern_type |-> pattern_type,
     base_shape |-> base_shape, bounds |-> <<>>,
     bounds_none |-> TRUE, tiles |-> <<>>]

\* RegularTiling._calculate_optimal_spacing
calculate_optimal_spacing(base_shape) ==
    IF isinstance(base_shape, "HyperCube") THEN base_shape.side_length
    ELSE IF isinstance(base_shape, "HyperSphere")
         THEN Mul(Two, base_shape.radius)
    ELSE IF isinstance(base_shape, "Simplex") THEN base_shape.side_length
    ELSE One

\* RegularTiling.__init__; spacing 0 stands for the default None, which
\* `spacing or ...` treats the same way
RegularTiling_init(dimensions, base_shape, spacing) ==
    LET self == TilingPattern_init(dimensions, base_shape, "regular")
    IN  [dimensions |-> self.dimensions,
         pattern_type |-> self.pattern_type,
         base_shape |-> self.base_shape, bounds |-> self.bounds,
         bounds_none |-> self.bounds_none, tiles |-> self.tiles,
         spacing |-> IF spacing # 0 THEN spacing
                     ELSE calculate_optimal_spacing(base_shape)]

\* HexagonalTiling.__init__
HexagonalTiling_init(side_length) ==
    LET self == TilingPattern_init(2, NoShape, "hexagonal")
    IN  [dimensions |-> self.dimensions,
         side_length |-> side_length,
         pattern_type |-> self.pattern_type, base_shape |-> self.base_shape,
         bounds |-> self.bounds, bounds_none |-> self.bounds_none,
         tiles |-> self.tiles,
         hexagon_height |-> Mul(side_length, SqrtInt(3)),
         hexagon_width |-> Mul(side_length, Two)]

\* VoronoiTiling.__init__ storing the seed points last to first
VoronoiTiling_init_reversed(dimensions, seed_points) ==
    LET self == TilingPattern_init(dimensions, NoShape, "voronoi")
    IN  [dimensions |-> self.dimensions,
         pattern_type |-> self.pattern_type,
         base_shape |-> self.base_shape, bounds |-> self.bounds,
         bounds_none |-> self.bounds_none, tiles |-> self.tiles,
         seed_points |-> [i \in 1..Len(seed_points) |->
                            seed_points[Len(seed_points) + 1 - i]]]

\* VoronoiTiling.__init__
VoronoiTiling_init(dimensions, seed_points) ==
    LET self == TilingPattern_init(dimensions, NoShape, "voronoi")
    IN  [dimensions |-> self.dimensions,
         pattern_type |-> self.pattern_type,
         base_shape |-> self.base_shape, bounds |-> self.bounds,
         bounds_none |-> self.bounds_none, tiles |-> self.tiles,
         seed_points |-> seed_points]

\* The loop
\*     x = lo;  while x <= hi: <body>;  x += step
\* as the passes it makes.  A loop state holds the loop variable x, the
\* values the body has run for (vals) and whether the loop is running, has
\* ended, or can never end ("diverges": an addition left x where it was or
\* below, because step <= 0 or step was lost in rounding).

\* one pass with the increment ahead of the body: the first point is lost
WhilePass_increment_first(l, hi, step) ==
    IF l.status # "running" THEN l
    ELSE IF ~LessEq(l.x, hi) \/ ~LessEq(Add(l.x, step), hi)
    THEN [l EXCEPT !.status = "ended"]
    ELSE IF Add(l.x, step) <= l.x
    THEN [x |-> l.x, status |-> "diverges", vals |-> Append(l.vals, l.x)]
    ELSE [x |-> Add(l.x, step), status |-> "running",
          vals |-> Append(l.vals, Add(l.x, step))]

\* one pass: the test, the body, the increment
WhilePass(l, hi, step) ==
    IF l.status # "running" THEN l
    ELSE IF ~LessEq(l.x, hi) THEN [l EXCEPT !.status = "ended"]
    ELSE IF Add(l.x, step) <= l.x
    THEN [x |-> l.x, status |-> "diverges", vals |-> Append(l.vals, l.x)]
    ELSE [x |-> Add(l.x, step), status |-> "running",
          vals |-> Append(l.vals, l.x)]

\* n passes one after the other (n >= 1)
RECURSIVE WhilePasses(_, _, _, _)
WhilePasses(l, hi, step, n) ==
    IF l.status # "running" THEN l
    ELSE IF n = 1 THEN WhilePass(l, hi, step)
    ELSE WhilePasses(WhilePasses(l, hi, step, n \div 2), hi, step,
                     n - n \div 2)

\* passes until the loop is no longer running, n at first and twice as
\* many each time
RECURSIVE WhileRun(_, _, _, _)
WhileRun(l, hi, step, n) ==
    IF l.status # "running" THEN l
    ELSE WhileRun(WhilePasses(l, hi, step, n), hi, step, 2 * n)

\* the loop run to its end: vals are the values the loop variable takes,
\* status tells whether the loop ended or never ends
WhileLoop(x, hi, step) ==
    WhileRun([x |-> x, status |-> "running", vals |-> <<>>], hi, step, 1)

\* outcome of a call: how it ended and what it left in self
Outcome(how, self) == [self |-> self, how |-> how]

\* a (min, max) pair can be unpacked only if it has exactly two entries
Unpacks(bounds, n) ==
    /\ Len(bounds) >= n
    /\ \A i \in 1..n : Len(bounds[i]) = 2

RegularTile(position, rotation, density) ==
    [position |-> position, rotation |-> rotation,
     scale |-> density, shape |-> "base_shape"]

\* the square grid of the HyperCube branch: for x: for y: append
SquareRows(xs, ys, density) ==
    Flatten([i \in 1..Len(xs) |->
                [j \in 1..Len(ys) |->
                    RegularTile(<<xs[i], ys[j]>>, <<0>>, density)]])

\* the alternating-offset rows of the Simplex and HyperSphere branches;
\* flip is TRUE where odd rows are rotated by 180
OffsetRow(row, y, x_min, x_max, spacing_x) ==
    LET x_offset == IF row % 2 = 1 THEN Div(spacing_x, Two) ELSE 0
    IN  WhileLoop(Add(x_min, x_offset), x_max, spacing_x)

OffsetRowTiles(xs, y, rotation, density) ==
    [j \in 1..Len(xs) |-> RegularTile(<<xs[j], y>>, <<rotation>>, density)]

OffsetRows(ys, x_min, x_max, spacing_x, density, flip) ==
    Flatten([i \in 1..Len(ys) |->
        OffsetRowTiles(OffsetRow(i - 1, ys[i], x_min, x_max, spacing_x).vals,
                       ys[i], IF flip /\ (i - 1) % 2 = 1 THEN 180 ELSE 0,
                       density)])

OffsetRowsDiverge(yl, x_min, x_max, spacing_x) ==
    \/ yl.status = "diverges"
    \/ \E i \in 1..Len(yl.vals) :
          OffsetRow(i - 1, yl.vals[i], x_min, x_max,
                    spacing_x).status = "diverges"

\* RegularTiling._generate_2d_regular_tiling, entered with self.bounds and
\* self.tiles already reset by generate_pattern
\* the HyperCube branch, xl and yl being its x loop and its y loop
SquareTiling(self, xl, yl, density) ==
    IF xl.vals # <<>> /\ (yl.status = "diverges" \/ xl.status = "diverges")
    THEN Outcome("diverges", self)
    ELSE Outcome("returned",
                 [self EXCEPT !.tiles = SquareRows(xl.vals, yl.vals, density)])

\* the Simplex and HyperSphere branches, yl being the loop over the rows
OffsetTiling(self, yl, x_min, x_max, spacing, density) ==
    IF OffsetRowsDiverge(yl, x_min, x_max, spacing)
    THEN Outcome("diverges", self)
    ELSE Outcome("returned",
                 [self EXCEPT !.tiles =
                     OffsetRows(yl.vals, x_min, x_max, spacing, density,
                                isinstance(self.base_shape, "Simplex"))])

\* the branches of _generate_2d_regular_tiling, spacing being
\* self.spacing / density
generate_2d_regular_tiling(self, bounds, density) ==
    IF density = 0 THEN Outcome("raised", self)          \* ZeroDivisionError
    ELSE IF ~Unpacks(bounds, 2) THEN Outcome("raised", self)
    ELSE IF isinstance(self.base_shape, "HyperCube")
    THEN SquareTiling(self,
                      WhileLoop(bounds[1][1], bounds[1][2],
                                Div(self.spacing, density)),
                      WhileLoop(bounds[2][1], bounds[2][2],
                                Div(self.spacing, density)),
                      density)
    ELSE IF isinstance(self.base_shape, "Simplex")
            \/ isinstance(self.base_shape, "HyperSphere")
    THEN OffsetTiling(self,
                      WhileLoop(bounds[2][1], bounds[2][2],
                                Div(Mul(Div(self.spacing, density), SqrtInt(3)),
                                    Two)),
                      bounds[1][1], bounds[1][2], Div(self.spacing, density),
                      density)
    ELSE Outcome("returned", [self EXCEPT !.tiles = <<>>])

\* one layer of the 3D layouts: for x: for y: append [x, y, z]
Layer(xs, ys, z, density) ==
    Flatten([i \in 1..Len(xs) |->
                [j \in 1..Len(ys) |->
                    RegularTile(<<xs[i], ys[j], z>>, <<0, 0, 0>>, density)]])

\* the HyperCube branch in 3D: for x: for y: for z: append
CubicGrid(xs, ys, zs, density) ==
    Flatten([i \in 1..Len(xs) |->
        Flatten([j \in 1..Len(ys) |->
            [k \in 1..Len(zs) |->
                RegularTile(<<xs[i], ys[j], zs[k]>>, <<0, 0, 0>>, density)]])])

\* the loops of layer number `layer` of the HyperSphere branch in 3D
LayerX(layer, x_min, x_max, spacing) ==
    IF layer % 2 = 0 THEN WhileLoop(x_min, x_max, spacing)
    ELSE WhileLoop(Add(x_min, Div(spacing, Two)), x_max, spacing)

LayersDiverge(zl, x_min, x_max, y_min, y_max, spacing) ==
    \/ zl.status = "diverges"
    \/ \E l \in 1..Len(zl.vals) :
          /\ LayerX(l - 1, x_min, x_max, spacing).vals # <<>>
          /\ \/ LayerX(l - 1, x_min, x_max, spacing).status = "diverges"
             \/ LayerX(l - 1, y_min, y_max, spacing).status = "diverges"

\* RegularTiling._generate_3d_regular_tiling
\* the HyperCube branch, xl, yl and zl being its three loops
CubicTiling(self, xl, yl, zl, density) ==
    IF \/ xl.vals # <<>> /\ yl.vals # <<>> /\ zl.status = "diverges"
       \/ xl.vals # <<>> /\ yl.status = "diverges"
       \/ xl.status = "diverges"
    THEN Outcome("diverges", self)
    ELSE Outcome("returned",
                 [self EXCEPT !.tiles =
                     CubicGrid(xl.vals, yl.vals, zl.vals, density)])

\* the HyperSphere branch, zl being the loop over the layers
LayeredTiling(self, zl, x_min, x_max, y_min, y_max, spacing, density) ==
    IF LayersDiverge(zl, x_min, x_max, y_min, y_max, spacing)
    THEN Outcome("diverges", self)
    ELSE Outcome("returned",
                 [self EXCEPT !.tiles =
                     Flatten([l \in 1..Len(zl.vals) |->
                         Layer(LayerX(l - 1, x_min, x_max, spacing).vals,
                               LayerX(l - 1, y_min, y_max, spacing).vals,
                               zl.vals[l], density)])])

\* the branches of _generate_3d_regular_tiling, spacing being
\* self.spacing / density
generate_3d_regular_tiling(self, bounds, density) ==
    IF density = 0 THEN Outcome("raised", self)          \* ZeroDivisionError
    ELSE IF ~Unpacks(bounds, 3) THEN Outcome("raised", self)
    ELSE IF isinstance(self.base_shape, "HyperCube")
    THEN CubicTiling(self,
                     WhileLoop(bounds[1][1], bounds[1][2],
                               Div(self.spacing, density)),
                     WhileLoop(bounds[2][1], bounds[2][2],
                               Div(self.spacing, density)),
                     WhileLoop(bounds[3][1], bounds[3][2],
                               Div(self.spacing, density)),
                     density)
    ELSE IF isinstance(self.base_shape, "HyperSphere")
    THEN LayeredTiling(self,
                       WhileLoop(bounds[3][1], bounds[3][2],
                                 Mul(Div(self.spacing, density),
                                     Flt(8165, 10000))),
                       bounds[1][1], bounds[1][2], bounds[2][1], bounds[2][2],
                       Div(self.spacing, density), density)
    ELSE Outcome("returned", [self EXCEPT !.tiles = <<>>])

\* generate_grid_points of _generate_nd_regular_tiling: how the recursion
\* from dim_index ends and the tiles it appends; GridLoop is its while loop
\* over the coordinates coords[lo..hi] of axis dim_index, taken in order
RECURSIVE generate_grid_points(_, _, _, _, _, _)
RECURSIVE GridLoop(_, _, _, _, _, _, _, _, _)

\* two stretches of the loop one after the other: the second is not run
\* where the first does not return
InTurn(first, rest) ==
    IF first.how # "returned" THEN [tiles |-> <<>>, how |-> first.how]
    ELSE IF rest.how # "returned" THEN [tiles |-> <<>>, how |-> rest.how]
    ELSE [tiles |-> first.tiles \o rest.tiles, how |-> "returned"]

GridLoop(dimensions, bounds, spacing, density, dim_index, current_position, coords, lo, hi) ==
    IF lo > hi THEN [tiles |-> <<>>, how |-> "returned"]
    ELSE IF lo = hi
    THEN generate_grid_points(dimensions, bounds, spacing, density,
                              dim_index + 1,
                              Append(current_position, coords[lo]))
    ELSE InTurn(GridLoop(dimensions, bounds, spacing, density, dim_index,
                         current_position, coords, lo, (lo + hi) \div 2),
                GridLoop(dimensions, bounds, spacing, density, dim_index,
                         current_position, coords, (lo + hi) \div 2 + 1, hi))

\* the loop of axis dim_index ended as r over the coordinates cl
AxisEnds(r, cl) ==
    IF r.how # "returned" THEN [tiles |-> <<>>, how |-> r.how]
    ELSE IF cl.status = "diverges" THEN [tiles |-> <<>>, how |-> "diverges"]
    ELSE r

AxisLoop(dimensions, bounds, spacing, density, dim_index, current_position, cl) ==
    AxisEnds(GridLoop(dimensions, bounds, spacing, density, dim_index,
                      current_position, cl.vals, 1, Len(cl.vals)), cl)

generate_grid_points(dimensions, bounds, spacing, density, dim_index, current_position) ==
    IF dim_index >= dimensions
    THEN [tiles |-> <<RegularTile(current_position,
                                  [i \in 1..dimensions |-> 0], density)>>,
          how |-> "returned"]
    ELSE IF ~(Len(bounds) > dim_index /\ Len(bounds[dim_index + 1]) = 2)
    THEN [tiles |-> <<>>, how |-> "raised"]
    ELSE AxisLoop(dimensions, bounds, spacing, density, dim_index,
                  current_position,
                  WhileLoop(bounds[dim_index + 1][1], bounds[dim_index + 1][2],
                            spacing))

\* what _generate_nd_regular_tiling leaves once generate_grid_points ended
\* as r
GridTiling(self, r) ==
    IF r.how = "returned"
    THEN Outcome("returned", [self EXCEPT !.tiles = r.tiles])
    ELSE Outcome(r.how, self)

\* RegularTiling._generate_nd_regular_tiling
generate_nd_regular_tiling(self, bounds, density) ==
    IF density = 0 THEN Outcome("raised", self)          \* ZeroDivisionError
    ELSE GridTiling(self,
                    generate_grid_points(self.dimensions, bounds,
                                         Div(self.spacing, density), density,
                                         0, <<>>))

\* 1 / density, and 0 for 0
Inverse(density) == IF density = 0 THEN 0 ELSE Div(One, density)

\* the generators given the inverse of the density
RegularTiling_generate_pattern_inverse(self, bounds, density) ==
    LET reset == [self EXCEPT !.bounds = bounds, !.bounds_none = FALSE,
                              !.tiles = <<>>]
    IN  IF self.dimensions = 2
        THEN generate_2d_regular_tiling(reset, bounds, Inverse(density))
        ELSE IF self.dimensions = 3
        THEN generate_3d_regular_tiling(reset, bounds, Inverse(density))
        ELSE generate_nd_regular_tiling(reset, bounds, Inverse(density))

\* RegularTiling.generate_pattern: self.bounds and self.tiles are reset,
\* then the generator of the dimension count runs
RegularTiling_generate_pattern(self, bounds, density) ==
    LET reset == [self EXCEPT !.bounds = bounds, !.bounds_none = FALSE,
                              !.tiles = <<>>]
    IN  IF self.dimensions = 2
        THEN generate_2d_regular_tiling(reset, bounds, density)
        ELSE IF self.dimensions = 3
        THEN generate_3d_regular_tiling(reset, bounds, density)
        ELSE generate_nd_regular_tiling(reset, bounds, density)

\* math.cos and math.sin of i * math.pi / 3, i = 0..5
CosSixth(i) ==
    CASE i = 0 -> One
      [] i = 1 -> Half
      [] i = 2 -> 0 - Half
      [] i = 3 -> 0 - One
      [] i = 4 -> 0 - Half
      [] OTHER -> Half
SinSixth(i) ==
    CASE i \in {0, 3} -> 0
      [] i \in {1, 2} -> Flt(8660, 10000)
      [] OTHER -> 0 - Flt(8660, 10000)

\* HexagonalTiling._get_hexagon_vertices
get_hexagon_vertices(center_x, center_y, side_length) ==
    [k \in 1..6 |-> <<Add(center_x, Mul(side_length, CosSixth(k - 1))),
                      Add(center_y, Mul(side_length, SinSixth(k - 1)))>>]

HexTile(self, x, y, density) ==
    [side_length |-> Mul(self.side_length, density), position |-> <<x, y>>,
     rotation |-> <<0>>,
     scale |-> density, shape |-> "hexagon",
     vertices |-> get_hexagon_vertices(x, y, Mul(self.side_length, density))]

HexRowTiles(self, xs, y, density) ==
    [j \in 1..Len(xs) |-> HexTile(self, xs[j], y, density)]

HexRows(self, ys, x_min, x_max, spacing_x, density) ==
    Flatten([i \in 1..Len(ys) |->
        HexRowTiles(self,
                    OffsetRow(i - 1, ys[i], x_min, x_max, spacing_x).vals,
                    ys[i], density)])

\* the two loops of HexagonalTiling.generate_pattern, yl being the loop
\* over the rows: the tiles are appended to self.tiles
HexRowsTiling(self, yl, x_min, x_max, spacing_x, density) ==
    IF OffsetRowsDiverge(yl, x_min, x_max, spacing_x)
    THEN Outcome("diverges", self)
    ELSE Outcome("returned",
                 [self EXCEPT !.tiles =
                     @ \o HexRows(self, yl.vals, x_min, x_max, spacing_x,
                                  density)])

\* HexagonalTiling.generate_pattern from the unpacking of bounds on
HexagonalTiling_generate(self, bounds, density) ==
    IF ~Unpacks(bounds, 2) THEN Outcome("raised", self)
    ELSE IF density = 0 THEN Outcome("raised", self)     \* ZeroDivisionError
    ELSE HexRowsTiling(self,
                       WhileLoop(bounds[2][1], bounds[2][2],
                                 Div(self.hexagon_height, density)),
                       bounds[1][1], bounds[1][2],
                       Div(Mul(self.hexagon_width, Flt(3, 4)), density),
                       density)

\* HexagonalTiling.generate_pattern without `self.tiles = []`
HexagonalTiling_generate_pattern_keeping(self, bounds, density) ==
    HexagonalTiling_generate([self EXCEPT !.bounds = bounds,
                                          !.bounds_none = FALSE],
                             bounds, density)

\* HexagonalTiling.generate_pattern
HexagonalTiling_generate_pattern(self, bounds, density) ==
    HexagonalTiling_generate([self EXCEPT !.bounds = bounds,
                                          !.bounds_none = FALSE,
                                          !.tiles = <<>>],
                             bounds, density)

\* VoronoiTiling._calculate_voronoi_vertices; ok is FALSE where the
\* unpacking of bounds or the indexing of seed raises
calculate_voronoi_vertices(self, seed, bounds) ==
    IF self.dimensions # 2 THEN [ok |-> TRUE, vertices |-> <<>>]
    ELSE IF ~Unpacks(bounds, 2) \/ Len(seed) < 2
    THEN [ok |-> FALSE, vertices |-> <<>>]
    ELSE LET cell_size == One
         IN  [ok |-> TRUE,
              vertices |->
                <<<<Sub(seed[1], cell_size), Sub(seed[2], cell_size)>>,
                  <<Add(seed[1], cell_size), Sub(seed[2], cell_size)>>,
                  <<Add(seed[1], cell_size), Add(seed[2], cell_size)>>,
                  <<Sub(seed[1], cell_size), Add(seed[2], cell_size)>>>>]

\* the loop of VoronoiTiling.generate_pattern from seed number i (1-based
\* here, seed_index is i - 1): each cell is appended to self.tiles, and the
\* loop stops at the first seed that raises
RECURSIVE VoronoiCells(_, _, _, _)
VoronoiCells(self, bounds, density, i) ==
    IF i > Len(self.seed_points) THEN Outcome("returned", self)
    ELSE IF ~calculate_voronoi_vertices(self, self.seed_points[i], bounds).ok
    THEN Outcome("raised", self)
    ELSE VoronoiCells(
             [self EXCEPT !.tiles =
                 Append(@, [position |-> self.seed_points[i],
                            scale |-> density, shape |-> "voronoi_cell",
                            vertices |->
                                calculate_voronoi_vertices(
                                    self, self.seed_points[i], bounds).vertices,
                            seed_index |-> i - 1])],
             bounds, density, i + 1)

\* VoronoiTiling.generate_pattern without `self.tiles = []`
VoronoiTiling_generate_pattern_keeping(self, bounds, density) ==
    VoronoiCells([self EXCEPT !.bounds = bounds, !.bounds_none = FALSE],
                 bounds, density, 1)

\* VoronoiTiling.generate_pattern
VoronoiTiling_generate_pattern(self, bounds, density) ==
    VoronoiCells([self EXCEPT !.bounds = bounds, !.bounds_none = FALSE,
                              !.tiles = <<>>],
                 bounds, density, 1)

\* generate_pattern, dispatched on the class of self
generate_pattern(self, bounds, density) ==
    CASE self.pattern_type = "regular" ->
            RegularTiling_generate_pattern(self, bounds, density)
      [] self.pattern_type = "hexagonal" ->
            HexagonalTiling_generate_pattern(self, bounds, density)
      [] OTHER -> VoronoiTiling_generate_pattern(self, bounds, density)

\* TilingPattern.get_tile_count
get_tile_count(self) == Len(self.tiles)

\* total_space of get_coverage_efficiency and _calculate_tile_density:
\* the product of max - min over every stored bound
RECURSIVE total_space(_)
total_space(bounds) ==
    IF bounds = <<>> THEN One
    ELSE Mul(total_space(Tail(bounds)), Sub(Head(bounds)[2], Head(bounds)[1]))

\* RegularTiling.get_coverage_efficiency (ok is FALSE where it raises)
RegularTiling_get_coverage_efficiency(self) ==
    IF self.tiles = <<>> \/ self.bounds_none \/ self.bounds = <<>>
    THEN [ok |-> TRUE, val |-> 0]
    ELSE IF \E i \in 1..Len(self.bounds) : Len(self.bounds[i]) # 2
    THEN [ok |-> FALSE, val |-> 0]
    ELSE IF get_volume_raises(self.base_shape)
    THEN [ok |-> FALSE, val |-> 0]                   \* OverflowError
    ELSE [ok |-> TRUE,
          val |-> IF Less(0, total_space(self.bounds))
                  THEN PyMin(Div(Mul(get_volume(self.base_shape),
                                     FromInt(Len(self.tiles))),
                                 total_space(self.bounds)),
                             One)
                  ELSE 0]

\* a coverage that is 0.0 while the pattern holds no tiles
HexagonalTiling_get_coverage_efficiency_of_tiles(self) ==
    [ok |-> TRUE, val |-> IF self.tiles = <<>> THEN 0 ELSE One]

\* HexagonalTiling.get_coverage_efficiency
HexagonalTiling_get_coverage_efficiency(self) == [ok |-> TRUE, val |-> One]

\* VoronoiTiling.get_coverage_efficiency
VoronoiTiling_get_coverage_efficiency(self) == [ok |-> TRUE, val |-> One]

get_coverage_efficiency(self) ==
    CASE self.pattern_type = "regular" ->
            RegularTiling_get_coverage_efficiency(self)
      [] self.pattern_type = "hexagonal" ->
            HexagonalTiling_get_coverage_efficiency(self)
      [] OTHER -> VoronoiTiling_get_coverage_efficiency(self)

\* _calculate_tile_density without `if not self.pattern.bounds`: iterating
\* over None raises
calculate_tile_density_unguarded(pattern_) ==
    IF pattern_.bounds_none THEN [ok |-> FALSE, val |-> 0]
    ELSE IF \E i \in 1..Len(pattern_.bounds) : Len(pattern_.bounds[i]) # 2
    THEN [ok |-> FALSE, val |-> 0]
    ELSE [ok |-> TRUE,
          val |-> IF Less(0, total_space(pattern_.bounds))
                  THEN Div(FromInt(Len(pattern_.tiles)),
                           total_space(pattern_.bounds))
                  ELSE 0]

\* TilingAnalyzer._calculate_tile_density (ok is FALSE where the unpacking
\* of a stored bound raises)
calculate_tile_density(pattern_) ==
    IF pattern_.bounds_none \/ pattern_.bounds = <<>>
    THEN [ok |-> TRUE, val |-> 0]
    ELSE IF \E i \in 1..Len(pattern_.bounds) : Len(pattern_.bounds[i]) # 2
    THEN [ok |-> FALSE, val |-> 0]
    ELSE [ok |-> TRUE,
          val |-> IF Less(0, total_space(pattern_.bounds))
                  THEN Div(FromInt(Len(pattern_.tiles)),
                           total_space(pattern_.bounds))
                  ELSE 0]

\* TilingAnalyzer._has_rotation_symmetry
has_rotation_symmetry(pattern_) ==
    \/ pattern_.pattern_type = "hexagonal"
    \/ isinstance(pattern_.base_shape, "HyperCube")

\* TilingAnalyzer._has_point_symmetry
has_point_symmetry(pattern_) == pattern_.pattern_type \in {"regular", "hexagonal"}

\* the coordination number of a square lattice whatever the base shape
calculate_coordination_number_of_squares(pattern_) ==
    IF pattern_.pattern_type = "hexagonal" THEN 6 ELSE 4

\* TilingAnalyzer._calculate_coordination_number
calculate_coordination_number(pattern_) ==
    IF pattern_.pattern_type = "hexagonal" THEN 6
    ELSE IF isinstance(pattern_.base_shape, "HyperCube")
    THEN 2 * pattern_.dimensions
    ELSE IF isinstance(pattern_.base_shape, "Simplex")
    THEN pattern_.dimensions + 1
    ELSE 4

\* TilingAnalyzer._get_vertex_configuration
get_vertex_configuration(pattern_) ==
    IF pattern_.pattern_type = "hexagonal" THEN "6.6.6"
    ELSE IF isinstance(pattern_.base_shape, "HyperCube") THEN "4.4.4.4"
    ELSE IF isinstance(pattern_.base_shape, "Simplex") THEN "3.3.3.3.3.3"
    ELSE "unknown"

\* TilingPattern.get_pattern_properties (the display name of the base shape
\* is not kept)
get_pattern_properties(self) ==
    [dimensions |-> self.dimensions,
     pattern_type |-> self.pattern_type,
     coverage_efficiency |-> get_coverage_efficiency(self).val,
     tile_count |-> get_tile_count(self)]

\* TilingAnalyzer.analyze_pattern raises what get_coverage_efficiency or
\* _calculate_tile_density raises
analyze_pattern_raises(pattern_) ==
    \/ ~get_coverage_efficiency(pattern_).ok
    \/ ~calculate_tile_density(pattern_).ok

\* TilingAnalyzer.analyze_pattern
analyze_pattern(pattern_) ==
    [coverage_efficiency |-> get_coverage_efficiency(pattern_).val,
     basic_properties |-> get_pattern_properties(pattern_),
     mathematical_properties |->
        [coordination_number |-> calculate_coordination_number(pattern_),
         is_periodic |-> TRUE,
         is_regular |-> pattern_.pattern_type = "regular",
         is_uniform |-> pattern_.pattern_type \in {"regular", "hexagonal"},
         vertex_configuration |-> get_vertex_configuration(pattern_)],
     symmetry_properties |->
        [point_symmetry |-> has_point_symmetry(pattern_),
         reflection_symmetry |-> TRUE,
         rotation_symmetry |-> has_rotation_symmetry(pattern_),
         translation_symmetry |-> TRUE],
     tile_density |-> calculate_tile_density(pattern_).val]

\* a draw of one seed fewer than asked for
RandomDraw_one_fewer(pick, n, d, bounds) ==
    [k \in 1..(n - 1) |->
        [i \in 1..d |-> IF pick = 1 THEN bounds[i][1]
                        ELSE IF pick = 2 THEN bounds[i][2]
                        ELSE bounds[i][1 + (k % 2)]]]

\* what random.uniform may draw for n seeds within bounds: the low corner,
\* the high corner, or the two in turn
RandomDraw(pick, n, d, bounds) ==
    [k \in 1..n |->
        [i \in 1..d |-> IF pick = 1 THEN bounds[i][1]
                        ELSE IF pick = 2 THEN bounds[i][2]
                        ELSE bounds[i][1 + (k % 2)]]]


\* ------------------------------------------------------- POST /api/tiling
\* A request that passed the TilingRequest schema.  An optional number left
\* out is 0 (the schema admits only values > 0), an optional string left
\* out is "", seed_points left out is <<>> (the handler tests truthiness).
\* what a handler did: how it ended itself, the pattern it built, how the
\* generate_pattern call it made ended ("none" if it made none) and with
\* which arguments, and the status and message it answered with
Answer(status, how, tiling, gen, bounds, density, detail) ==
    [bounds |-> bounds, status |-> status, how |-> how, density |-> density,
     tiling |-> tiling, gen |-> gen, detail |-> detail]

\* the exception left to the server, which answers 500
BadRequest_server_error(detail) ==
    Answer(500, "returned", NoPattern, "none", <<>>, 0, detail)

\* except Exception as e: raise HTTPException(status_code=400, detail=str(e))
BadRequest(detail) == Answer(400, "returned", NoPattern, "none", <<>>, 0, detail)

\* the answer of create_tiling once generate_pattern ended as r: the
\* pattern is then analyzed
Answered(r, bounds, density) ==
    IF r.how = "returned"
    THEN IF ~analyze_pattern_raises(r.self)
         THEN Answer(200, "returned", r.self, "returned", bounds, density, "")
         ELSE Answer(400, "returned", r.self, "returned", bounds, density,
                     "error raised by analyze_pattern")
    ELSE IF r.how = "raised"
    THEN Answer(400, "returned", r.self, "raised", bounds, density,
                "error raised by generate_pattern")
    ELSE Answer(0, "diverges", r.self, "diverges", bounds, density, "")

\* the `tiling = ...` of each branch of create_tiling, or the error the
\* branch raises before it
RegularTilingOn(dimensions, base) ==
    IF ~base.ok THEN Raised(base.err)
    ELSE Returned(RegularTiling_init(dimensions, base.val, 0))

RequestedRegularTiling(request, shape_size) ==
    IF shape_size = 0 THEN Raised("Regular tiling requires 'shape_size'")
    ELSE IF request.shape_type = ""
    THEN Raised("Regular tiling requires 'shape_type'")
    ELSE CASE request.shape_type = "cube" ->
                RegularTilingOn(request.dimensions,
                    HyperCube_init(request.dimensions, shape_size))
           [] request.shape_type = "sphere" ->
                RegularTilingOn(request.dimensions,
                    HyperSphere_init(request.dimensions, shape_size))
           [] request.shape_type = "simplex" ->
                RegularTilingOn(request.dimensions,
                    Simplex_init(request.dimensions, shape_size))
           [] OTHER -> Raised("Unsupported shape type")

\* the hexagonal branch without its check of request.dimensions
RequestedHexagonalTiling_any_dimension(request, hex_side_length) ==
    IF hex_side_length = 0
    THEN Raised("Hexagonal tiling requires 'hex_side_length'")
    ELSE Returned(HexagonalTiling_init(hex_side_length))

RequestedHexagonalTiling(request, hex_side_length) ==
    IF request.dimensions # 2
    THEN Raised("Hexagonal tiling is only supported in 2D")
    ELSE IF hex_side_length = 0
    THEN Raised("Hexagonal tiling requires 'hex_side_length'")
    ELSE Returned(HexagonalTiling_init(hex_side_length))

\* the Voronoi branch falling back to no seeds where none is asked for
RequestedVoronoiTiling_defaulting(request, random_seeds) ==
    IF request.dimensions # 2
    THEN Raised("Voronoi tiling is currently only supported in 2D")
    ELSE IF request.seed_points # <<>>
    THEN Returned(VoronoiTiling_init(request.dimensions, request.seed_points))
    ELSE Returned(VoronoiTiling_init(request.dimensions, random_seeds))

RequestedVoronoiTiling(request, random_seeds) ==
    IF request.dimensions # 2
    THEN Raised("Voronoi tiling is currently only supported in 2D")
    ELSE IF request.seed_points # <<>>
    THEN Returned(VoronoiTiling_init(request.dimensions, request.seed_points))
    ELSE IF request.num_random_seeds # 0
    THEN Returned(VoronoiTiling_init(request.dimensions, random_seeds))
    ELSE Raised("Voronoi tiling requires either 'seed_points' or 'num_random_seeds'")

RequestedTiling(request, random_seeds) ==
    CASE request.tiling_type = "regular" ->
            RequestedRegularTiling(request,
                IF request.shape_size = 0 THEN request.parameter
                ELSE request.shape_size)
      [] request.tiling_type = "hexagonal" ->
            RequestedHexagonalTiling(request,
                IF request.hex_side_length = 0 THEN request.side_length
                ELSE request.hex_side_length)
      [] request.tiling_type = "voronoi" ->
            RequestedVoronoiTiling(request, random_seeds)
      [] OTHER -> Raised("Unsupported tiling type")

\* the try block of create_tiling from the branches on
AnswerFor(t, bounds, density) ==
    IF ~t.ok THEN BadRequest(t.err)
    ELSE Answered(generate_pattern(t.val, bounds, density), bounds, density)

\* create_tiling; random_seeds is what random.uniform draws when asked
create_tiling(request, random_seeds) ==
    IF Len(request.bounds) # request.dimensions
    THEN BadRequest("Number of bounds must match dimensions")
    ELSE IF \E i \in 1..Len(request.bounds) : Len(request.bounds[i]) < 2
    THEN BadRequest("list index out of range")
    ELSE AnswerFor(RequestedTiling(request, random_seeds),
                   [i \in 1..Len(request.bounds) |->
                       <<request.bounds[i][1], request.bounds[i][2]>>],
                   request.density)

\* --------------------------------------------- GeometryAgent tiling handler
\* A query is held as what the extractor patterns find in it: the number
\* each pattern matched, or -1 where the extractor returns -1.
NoMatch == 0 - 1

\* GeometryAgent._extract_bounds: <<>> stands for None
extract_bounds(query) ==
    CASE query.bounds_kind = "bounds" ->
            <<<<query.b1, query.b2>>, <<query.b1, query.b2>>>>
      [] query.bounds_kind = "area" ->
            <<<<0, query.b1>>, <<0, query.b2>>>>
      [] OTHER -> <<>>

\* GeometryAgent._determine_base_shape
determine_base_shape(query) ==
    LET dimensions == IF query.dimensions = NoMatch THEN 2 ELSE query.dimensions
        parameter == IF query.parameter = MinusOne THEN One ELSE query.parameter
    IN  CASE query.shape_word = "cube" -> HyperCube_init(dimensions, parameter)
          [] query.shape_word = "sphere" -> HyperSphere_init(dimensions, parameter)
          [] query.shape_word = "simplex" -> Simplex_init(dimensions, parameter)
          [] query.shape_word = "pyramid" ->
                HyperPyramid_init(dimensions, parameter, parameter)
          [] OTHER -> Returned(NoShape)

\* the reply of a branch once generate_pattern ended as r: the pattern is
\* then analyzed
Reported(r, bounds, density, text) ==
    IF r.how = "returned"
    THEN Answer(0, "returned", r.self, "returned", bounds, density,
               IF ~analyze_pattern_raises(r.self) THEN text
               ELSE "Error generating tiling pattern")
    ELSE IF r.how = "raised"
    THEN Answer(0, "returned", r.self, "raised", bounds, density,
               "Error generating tiling pattern")
    ELSE Answer(0, "diverges", r.self, "diverges", bounds, density, "")

\* the `tiling = ...` of each branch of _handle_tiling_query with the
\* heading of its report, or what the branch returns without a tiling
Chosen(tiling, text) == [ok |-> TRUE, val |-> tiling, text |-> text]
NotChosen(text) == [ok |-> FALSE, val |-> NoPattern, text |-> text]

QueriedVoronoiTiling(pick, seed_count, dimensions, bounds) ==
    IF seed_count > 0 /\ Len(bounds) < dimensions
    THEN NotChosen("Error generating tiling pattern")    \* IndexError
    ELSE Chosen(VoronoiTiling_init(dimensions,
                    RandomDraw(pick, seed_count, dimensions, bounds)),
                "Voronoi Tiling Pattern")

QueriedRegularTiling(dimensions, base) ==
    IF ~base.ok THEN NotChosen("Error generating tiling pattern")
    ELSE IF base.val = NoShape
    THEN NotChosen("Please specify a base shape for regular tiling")
    ELSE Chosen(RegularTiling_init(dimensions, base.val, 0),
                "Regular Tiling Pattern")

QueriedTiling(query, pick, dimensions, bounds) ==
    CASE query.pattern_word = "hexagonal" ->
            Chosen(HexagonalTiling_init(IF query.parameter = MinusOne THEN One
                                        ELSE query.parameter),
                   "Hexagonal Tiling Pattern")
      [] query.pattern_word = "voronoi" ->
            QueriedVoronoiTiling(pick,
                IF query.seed_count = NoMatch THEN 10 ELSE query.seed_count,
                dimensions, bounds)
      [] OTHER -> QueriedRegularTiling(dimensions, determine_base_shape(query))

\* the try block of _handle_tiling_query from the branches on
ReplyFor(t, bounds, density) ==
    IF ~t.ok THEN Answer(0, "returned", NoPattern, "none", <<>>, 0, t.text)
    ELSE Reported(generate_pattern(t.val, bounds, density), bounds, density,
                  t.text)

\* GeometryAgent._handle_tiling_query; pick is the way random.uniform
\* draws
handle_tiling_query(query, pick) ==
    LET dimensions == IF query.dimensions = NoMatch THEN 2
                      ELSE query.dimensions
        bounds == IF extract_bounds(query) = <<>>
                  THEN [i \in 1..dimensions |-> <<0, FromInt(10)>>]
                  ELSE extract_bounds(query)
    IN  ReplyFor(QueriedTiling(query, pick, dimensions, bounds), bounds,
                 IF query.density = MinusOne THEN One ELSE query.density)

\* the handler process_query gives a query to: the first of its tests, in
\* the order of the code, that finds its keyword in the query. keys are
\* the keywords that occur in the query as substrings.
process_query_handler(keys) ==
    CASE {"original", "java"} \subseteq keys -> "original_java"
      [] keys \cap {"ellipse", "ellipsoid", "oval"} # {} -> "ellipsoid"
      [] keys \cap {"simplex", "triangle", "tetrahedron"} # {} -> "simplex"
      [] keys \cap {"pyramid", "cone"} # {} -> "pyramid"
      [] keys \cap {"create", "make"} # {} -> "create"
      [] keys \cap {"volume", "area", "surface"} # {} -> "property"
      [] keys \cap {"compare", "vs", "versus"} # {} -> "comparison"
      [] keys \cap {"tiling", "tessellation", "tile", "pattern"} # {} ->
            "tiling"
      [] OTHER -> "help"

\* what the tiling handler and _determine_base_shape find in the query
TilingWords(c) ==
    [dimensions |-> c.dimensions, density |-> c.density,
     parameter |-> c.parameter, bounds_kind |-> c.bounds_kind,
     b1 |-> c.b1, b2 |-> c.b2,
     shape_word |->
        IF c.keys \cap {"cube", "square"} # {} THEN "cube"
        ELSE IF c.keys \cap {"sphere", "circle"} # {} THEN "sphere"
        ELSE IF c.keys \cap {"simplex", "triangle"} # {} THEN "simplex"
        ELSE IF "pyramid" \in c.keys THEN "pyramid" ELSE "",
     seed_count |-> c.seed_count,
     pattern_word |->
        IF c.keys \cap {"hexagonal", "hexagon"} # {} THEN "hexagonal"
        ELSE IF "voronoi" \in c.keys THEN "voronoi" ELSE "regular"]

\* GeometryAgent._handle_property_query: the heading of its reply; an
\* exception of the shape constructor is caught by process_query
handle_property_query(c) ==
    IF c.parameter = MinusOne
    THEN "Please specify a parameter (radius or side length)"
    ELSE IF c.keys \cap {"cube", "hypercube"} # {}
    THEN IF HyperCube_init(IF c.dimensions = NoMatch THEN 3
                           ELSE c.dimensions, c.parameter).ok
         THEN "Surface area of cube"
         ELSE "Sorry, I encountered an error"
    ELSE IF HyperSphere_init(IF c.dimensions = NoMatch THEN 3
                             ELSE c.dimensions, c.parameter).ok
         THEN "Surface area of sphere"
         ELSE "Sorry, I encountered an error"

\* GeometryAgent.process_query on the queries of the tiling commands: the
\* reply of the handler the query is given to
process_query(c, pick) ==
    CASE process_query_handler(c.keys) = "tiling" ->
            handle_tiling_query(TilingWords(c), pick)
      [] process_query_handler(c.keys) = "property" ->
            Answer(0, "returned", NoPattern, "none", <<>>, 0,
                   handle_property_query(c))
      [] OTHER ->
            Answer(0, "returned", NoPattern, "none", <<>>, 0,
                   "N-Dimensional Geometry Engine Commands")

\* ------------------------------------------------------------------ state
VARIABLES
    shape,      \* the live shape object, or NoShape
    pattern,    \* the live tiling pattern object, or NoPattern
    call,       \* the last call made: what, by whom, how it ended
    response,   \* the MCP server: the last request and what answered it
    db,         \* the MCP server: the tables of its database
    tasks       \* the MCP server: the tool invocations under way

vars == <<shape, pattern, call, response, db, tasks>>

\* the state of the geometry engine, and that of the MCP server
geometry == <<shape, pattern, call>>
mcp == <<response, db, tasks>>

\* before any request, with the tables as the schema creates them
NoResponse == [statusCode |-> 0]
EmptyDb ==
    [dimension_stats |-> <<>>, query_logs |-> <<>>,
     tool_usage_stats |-> <<>>, unique |-> TRUE, writer |-> 0]

\* ----------------------------------------------------------------- inputs
Small == Flt(3, 10)
\* a length whose square overflows
Huge == 2 ^ (FracBits + MaxExp - 1)
ParamVals == {MinusOne, 0, Small, One, Huge}
DimVals == (0 - 1)..MaxDim
PyramidParams == {<<MinusOne, One>>, <<0, 0>>, <<Small, One>>, <<One, One>>}
DiameterVals == {MinusOne, 0, One, Two}
Densities == {0, One, FromInt(5)}

\* intervals: a wide one, a narrow one, a reversed one
Wide == <<0, Two>>
Narrow == <<0, Flt(1, 10)>>
Reversed == <<Two, 0>>

Axes(n, first, rest) == [i \in 1..n |-> IF i = 1 THEN first ELSE rest]

\* the bounds lists tried on a pattern of n dimensions: well-formed ones,
\* one with a reversed axis, one an axis short, one an axis long
DirectBounds(n) ==
    {Axes(n, Wide, Narrow), Axes(n, Narrow, Narrow), Axes(n, Reversed, Wide),
     Axes(n - 1, Wide, Narrow), Axes(n, Wide, Narrow) \o <<Wide>>}

SeedLists ==
    {<<>>,
     <<<<One, One>>, <<Small, Two>>>>,
     <<<<One, One>>, <<Small>>, <<Two, Two>>>>}

\* ------------------------------------------------------------------ calls
\* op, via and how: the call, its caller and how it ended; gen, bounds and
\* density: how the generate_pattern call made in it ended ("none" if none
\* was made) and its arguments; prior: for generate_pattern called on the
\* live pattern, whether the call just before it was generate_pattern on
\* that pattern too, with the same arguments and returning ("same"), or
\* not ("other"), or was no generate_pattern call ("none")
Call(op, via, how, args) ==
    [bounds |-> <<>>, how |-> how, density |-> 0, gen |-> "none",
     op |-> op, via |-> via, args |-> args, prior |-> "none"]

Generated(op, via, a, args) ==
    [bounds |-> a.bounds, how |-> a.how, density |-> a.density, gen |-> a.gen,
     op |-> op, via |-> via, args |-> args,
     prior |-> "none"]

\* the single-threaded program makes no further call while one is looping
Running == call.how # "diverges"

Init ==
    /\ shape = NoShape
    /\ pattern = NoPattern
    /\ call = Call("start", "direct", "returned", <<>>)
    /\ response = NoResponse
    /\ db = EmptyDb
    /\ tasks = <<>>

\* a constructor call: the object exists only if __init__ returned; a shape
\* is built before the pattern laid over it
Constructed(r, cls, dimensions, parameters) ==
    /\ Running
    /\ pattern = NoPattern
    /\ shape' = r.val
    /\ pattern' = NoPattern
    /\ UNCHANGED mcp
    /\ call' = Call("construct", "direct",
                    IF r.ok THEN "returned" ELSE "raised",
                    [cls |-> cls, err |-> r.err,
                     parameters |-> parameters, dimensions |-> dimensions])

NewHyperSphere ==
    \E dimensions \in DimVals, radius \in ParamVals :
        Constructed(HyperSphere_init(dimensions, radius),
                    "HyperSphere", dimensions, <<radius>>)

NewHyperCube ==
    \E dimensions \in DimVals, side_length \in ParamVals :
        Constructed(HyperCube_init(dimensions, side_length),
                    "HyperCube", dimensions, <<side_length>>)

NewSimplex ==
    \E dimensions \in DimVals, side_length \in ParamVals :
        Constructed(Simplex_init(dimensions, side_length),
                    "Simplex", dimensions, <<side_length>>)

NewHyperPyramid ==
    \E dimensions \in DimVals, p \in PyramidParams :
        Constructed(HyperPyramid_init(dimensions, p[1], p[2]),
                    "HyperPyramid", dimensions, p)

NewHyperEllipsoid ==
    \E dimensions \in DimVals, a \in ParamVals, n \in 1..MaxDim :
        /\ n \in {dimensions, dimensions + 1}
        /\ Constructed(HyperEllipsoid_init(dimensions, [i \in 1..n |-> a]),
                       "HyperEllipsoid", dimensions, [i \in 1..n |-> a])

NewOriginalSphere ==
    \E diameter \in DiameterVals :
        Constructed(OriginalSphere_init(diameter),
                    "OriginalSphere", 3, <<Div(diameter, Two)>>)

\* the public methods that only read the object
ReadMethods ==
    {"get_volume", "get_surface_area", "get_shape_type", "get_volume_formula",
     "get_surface_area_formula", "get_diameter", "contains_point", "__str__"}

\* a read method called on the live shape; of what the methods return the
\* volume is kept, and __str__ asks for the volume first
ShapeRead ==
    \E m \in ReadMethods :
        /\ Running
        /\ shape # NoShape
        /\ UNCHANGED mcp
        /\ call' = Call(m, "direct",
                        IF m \in {"get_volume", "__str__"}
                           /\ get_volume_raises(shape)
                        THEN "raised" ELSE "returned",
                        [volume |-> get_volume(shape)])
        /\ UNCHANGED <<shape, pattern>>

\* HyperPyramid._binomial: for i in range(1, k + 1):
\*     result = result * (n - i + 1) // i
RECURSIVE binomial_loop(_, _, _, _)
binomial_loop(n, k, i, result) ==
    IF i > k THEN result
    ELSE binomial_loop(n, k, i + 1, (result * (n - i + 1)) \div i)

binomial(n, k) ==
    IF k > n \/ k < 0 THEN 0
    ELSE IF k = 0 \/ k = n THEN 1
    ELSE binomial_loop(n, k, 1, 1)

\* HyperPyramid.get_vertex_count
HyperPyramid_get_vertex_count(self) ==
    IF self.dimensions = 1 THEN 2 ELSE 2 ^ (self.dimensions - 1) + 1

\* HyperPyramid.get_edge_count
HyperPyramid_get_edge_count(self) ==
    IF self.dimensions = 1 THEN 1
    ELSE IF self.dimensions = 2 THEN 3
    ELSE (self.dimensions - 1) * 2 ^ (self.dimensions - 2)
            + 2 ^ (self.dimensions - 1)

\* HyperPyramid.get_face_count
HyperPyramid_get_face_count(self, k) ==
    IF k < 0 \/ k > self.dimensions THEN 0
    ELSE IF k = self.dimensions THEN 1
    ELSE IF k = self.dimensions - 1 THEN 1 + 2 * (self.dimensions - 1)
    ELSE IF k = 0 THEN HyperPyramid_get_vertex_count(self)
    ELSE IF k = 1 THEN HyperPyramid_get_edge_count(self)
    ELSE binomial(self.dimensions - 1, k) * 2 ^ (self.dimensions - 1 - k)
            + (self.dimensions - 1) * binomial(self.dimensions - 1, k - 1)

\* get_face_count(k) called on the live pyramid
FaceCount ==
    \E k \in (0 - 1)..(MaxDim + 1) :
        /\ Running
        /\ shape # NoShape
        /\ shape.cls = "HyperPyramid"
        /\ UNCHANGED mcp
        /\ call' = Call("get_face_count", "direct", "returned",
                        [k |-> k, result |-> HyperPyramid_get_face_count(shape, k)])
        /\ UNCHANGED <<shape, pattern>>

\* OriginalSphere.set_diameter; a regular pattern built on the sphere
\* refers to the same object
DiameterSet(r, new_diameter) ==
    /\ shape' = r.val
    /\ pattern' = IF pattern.pattern_type = "regular"
                  THEN [pattern EXCEPT !.base_shape = r.val]
                  ELSE pattern
    /\ UNCHANGED mcp
    /\ call' = Call("set_diameter", "direct",
                    IF r.ok THEN "returned" ELSE "raised",
                    [new_diameter |-> new_diameter])

SetDiameter ==
    \E new_diameter \in DiameterVals :
        /\ Running
        /\ shape.cls = "OriginalSphere"
        /\ DiameterSet(set_diameter(shape, new_diameter), new_diameter)

NewRegularTiling ==
    /\ Running
    /\ shape # NoShape
    /\ pattern' = RegularTiling_init(shape.dimensions, shape, 0)
    /\ UNCHANGED mcp
    /\ call' = Call("new_pattern", "direct", "returned", <<>>)
    /\ UNCHANGED shape

NewHexagonalTiling ==
    \E side_length \in ParamVals :
        /\ Running
        /\ pattern' = HexagonalTiling_init(side_length)
        /\ shape' = NoShape
        /\ UNCHANGED mcp
        /\ call' = Call("new_pattern", "direct", "returned", <<>>)

NewVoronoiTiling ==
    \E dimensions \in 2..MaxDim, seed_points \in SeedLists :
        /\ Running
        /\ pattern' = VoronoiTiling_init(dimensions, seed_points)
        /\ shape' = NoShape
        /\ UNCHANGED mcp
        /\ call' = Call("new_pattern", "direct", "returned", <<>>)

\* the call ended as r: the pattern is left as the call left it
PatternGenerated(r, bounds, density) ==
    /\ pattern' = r.self
    /\ UNCHANGED mcp
    /\ call' = [bounds |-> bounds, how |-> r.how,
                density |-> density, gen |-> r.how, op |-> "generate_pattern",
                via |-> "direct", args |-> <<>>,
                prior |-> IF call.op # "generate_pattern" THEN "none"
                          ELSE IF /\ call.how = "returned"
                                  /\ call.bounds = bounds
                                  /\ call.density = density
                               THEN "same" ELSE "other"]
    /\ UNCHANGED shape

\* generate_pattern called on the live pattern
GeneratePattern ==
    /\ Running
    /\ pattern # NoPattern
    /\ call.via = "direct"
    /\ \E bounds \in DirectBounds(pattern.dimensions), density \in Densities :
        PatternGenerated(generate_pattern(pattern, bounds, density),
                         bounds, density)

\* the public methods of a pattern that only read it
PatternReadMethods ==
    {"get_tile_count", "get_coverage_efficiency", "get_pattern_properties",
     "analyze_pattern"}

\* what a read method returns, and whether it raises instead
PatternReadResult(m, self) ==
    CASE m = "get_tile_count" -> get_tile_count(self)
      [] m = "get_coverage_efficiency" -> get_coverage_efficiency(self).val
      [] m = "get_pattern_properties" -> get_pattern_properties(self)
      [] OTHER -> analyze_pattern(self)

PatternReadRaises(m, self) ==
    CASE m = "get_tile_count" -> FALSE
      [] m = "analyze_pattern" -> analyze_pattern_raises(self)
      [] OTHER -> ~get_coverage_efficiency(self).ok

\* a read method that empties self.tiles
PatternRead_clearing ==
    \E m \in PatternReadMethods :
        /\ Running
        /\ pattern # NoPattern
        /\ call.via = "direct"
        /\ pattern' = [pattern EXCEPT !.tiles = <<>>]
        /\ shape' = shape
        /\ UNCHANGED mcp
        /\ call' = Call(m, "direct",
                        IF PatternReadRaises(m, pattern) THEN "raised"
                        ELSE "returned",
                        [result |-> PatternReadResult(m, pattern)])

\* a read method, or the analyzer, called on the live pattern: the object
\* is not assigned to
PatternRead ==
    \E m \in PatternReadMethods :
        /\ Running
        /\ pattern # NoPattern
        /\ call.via = "direct"
        /\ pattern' = pattern
        /\ shape' = shape
        /\ UNCHANGED mcp
        /\ call' = Call(m, "direct",
                        IF PatternReadRaises(m, pattern) THEN "raised"
                        ELSE "returned",
                        [result |-> PatternReadResult(m, pattern)])

RegularRequests ==
    [side_length : {0}, seed_points : {<<>>},
     shape_size : {0, Small, One, Huge}, shape_type : {"", "cube", "sphere", "simplex", "torus"},
     hex_side_length : {0}, num_random_seeds : {0},
     tiling_type : {"regular"}, parameter : {0, One}]

HexagonalRequests ==
    [side_length : {0, One}, seed_points : {<<>>},
     shape_size : {0}, shape_type : {""},
     hex_side_length : {0, Small}, num_random_seeds : {0},
     tiling_type : {"hexagonal"}, parameter : {0}]

VoronoiRequests ==
    [side_length : {0}, seed_points : SeedLists,
     shape_size : {0}, shape_type : {""},
     hex_side_length : {0}, num_random_seeds : {0, 2},
     tiling_type : {"voronoi", "penrose"}, parameter : {0}]

Request(kind, dimensions, bounds, density) ==
    [dimensions |-> dimensions, side_length |-> kind.side_length,
     bounds |-> bounds,
     seed_points |-> kind.seed_points,
     density |-> density,
     shape_size |-> kind.shape_size,
     shape_type |-> kind.shape_type,
     hex_side_length |-> kind.hex_side_length,
     num_random_seeds |-> kind.num_random_seeds,
     tiling_type |-> kind.tiling_type,
     parameter |-> kind.parameter]

\* the handler answered a
TilingCreated(a, request) ==
    /\ pattern' = a.tiling
    /\ shape' = NoShape
    /\ UNCHANGED mcp
    /\ call' = Generated("create_tiling", "web", a,
                         [status |-> a.status, detail |-> a.detail,
                          request |-> request])

\* one request to POST /api/tiling, handled from a fresh process state:
\* the handler builds its own shape and pattern and shares nothing
CreateTiling ==
    /\ call.op = "start"
    /\ \E kind \in RegularRequests \cup HexagonalRequests \cup VoronoiRequests,
          dimensions \in 1..MaxDim, density \in Densities \ {0} :
        \E bounds \in DirectBounds(dimensions) :
        \E seeds \in IF kind.num_random_seeds > 0 /\ kind.seed_points = <<>>
                        /\ Len(bounds) = dimensions
                     THEN {RandomDraw(pick, kind.num_random_seeds,
                                      dimensions, bounds) : pick \in 1..3}
                     ELSE {<<>>} :
            TilingCreated(create_tiling(Request(kind, dimensions, bounds,
                                                density), seeds),
                          Request(kind, dimensions, bounds, density))


\* a query names no, one, two or three dimensions: the default region of
\* side 10 holds 11^n unit tiles

Queries ==
    [dimensions : {NoMatch, 1, 2, 3},
     density : {MinusOne, 0, One},
     parameter : {MinusOne, 0, One}, bounds_kind : {"none", "bounds", "area"},
     b1 : {0, Two},
     b2 : {0, Two},
     shape_word : {"", "cube", "sphere", "simplex", "pyramid"},
     seed_count : {NoMatch, 0, 2},
     pattern_word : {"hexagonal", "voronoi", "regular"}]

\* the fields of a query that the handler reads on its branch; the others
\* are held at their first value
Relevant(q) ==
    /\ q.bounds_kind = "none" => q.b1 = 0 /\ q.b2 = 0
    /\ q.pattern_word # "voronoi" => q.seed_count = NoMatch
    /\ q.pattern_word = "voronoi" => q.parameter = MinusOne
    /\ q.pattern_word # "regular" => q.shape_word = ""

\* the handler replied r
QueryHandled(r, query) ==
    /\ pattern' = r.tiling
    /\ shape' = NoShape
    /\ UNCHANGED mcp
    /\ call' = Generated("handle_tiling_query", "agent", r,
                         [query |-> query, text |-> r.detail])

\* one query given to the agent's tiling handler, from a fresh state
HandleTilingQuery ==
    /\ call.op = "start"
    /\ \E query \in Queries :
        /\ Relevant(query)
        /\ \E pick \in 1..3 :
            /\ query.pattern_word # "voronoi" => pick = 1
            /\ QueryHandled(handle_tiling_query(query, pick), query)

\* a tiling command as the agent reads it: the keywords that occur in it
\* and the numbers its patterns match
Command(keys, parameter, bounds_kind, b1, b2, seed_count, density) ==
    [dimensions |-> NoMatch, density |-> density, parameter |-> parameter,
     bounds_kind |-> bounds_kind, b1 |-> b1, b2 |-> b2,
     seed_count |-> seed_count, keys |-> keys]

\* the commands of the help text under TILING PATTERNS, with the numbers of
\* the help text and with others:
\*   'hexagonal tiling side 1.0 area 10x10'
\*   'square tiling with cubes area 5x5'
\*   'triangular tiling with simplices bounds 0 8'
\*   'voronoi tiling seeds 15 area 12x8'
\*   'regular tiling with circles density 1.5'
\* ("triangular" does not hold "triangle", nor "simplices" "simplex")
HelpCommands ==
    {Command({"hexagonal", "hexagon", "tiling", "area"}, side, "area", b, b,
             NoMatch, MinusOne) : side \in {One, Two}, b \in {Two, FromInt(10)}}
    \cup {Command({"square", "cube", "tiling", "area"}, MinusOne, "area", b, b,
                  NoMatch, MinusOne) : b \in {Two, FromInt(5)}}
    \cup {Command({"tiling"}, MinusOne, "bounds", 0, b, NoMatch, MinusOne) :
            b \in {Two, FromInt(8)}}
    \cup {Command({"voronoi", "tiling", "area"}, MinusOne, "area", b, Two,
                  n, MinusOne) : b \in {Two, FromInt(12)}, n \in {2, 15}}
    \cup {Command({"circle", "tiling"}, MinusOne, "none", 0, 0, NoMatch, d) :
            d \in {One, Flt(3, 2), Two}}

\* other queries: 'hexagonal tiling side 0 bounds 0 2', 'hexagonal tiling
\* side 1 bounds 0 2', 'voronoi tiling seeds 2 bounds 0 2', 'tiling with
\* cubes side 1 density 0', 'square tiling with cubes bounds 0 2',
\* 'area of cube side 0', 'hello'
OtherCommands ==
    {Command({"hexagonal", "hexagon", "tiling"}, side, "bounds", 0, Two,
             NoMatch, MinusOne) : side \in {0, One}}
    \cup {Command({"voronoi", "tiling"}, MinusOne, "bounds", 0, Two, 2,
                  MinusOne),
          Command({"cube", "tiling"}, One, "none", 0, 0, NoMatch, 0),
          Command({"square", "cube", "tiling"}, MinusOne, "bounds", 0, Two,
                  NoMatch, MinusOne),
          Command({"area", "cube"}, 0, "none", 0, 0, NoMatch, MinusOne),
          Command({}, MinusOne, "none", 0, 0, NoMatch, MinusOne)}

\* one query given to the agent, from a fresh state
ProcessQuery ==
    /\ call.op = "start"
    /\ \E c \in HelpCommands \cup OtherCommands, pick \in 1..3 :
        /\ "voronoi" \notin c.keys => pick = 1
        /\ pattern' = process_query(c, pick).tiling
        /\ shape' = NoShape
        /\ UNCHANGED mcp
        /\ call' = Generated("process_query", "agent", process_query(c, pick),
                             [query |-> c,
                              text |-> process_query(c, pick).detail,
                              handler |-> process_query_handler(c.keys)])

Next ==
    \/ NewHyperSphere
    \/ NewHyperCube
    \/ NewSimplex
    \/ NewHyperPyramid
    \/ NewHyperEllipsoid
    \/ NewOriginalSphere
    \/ ShapeRead
    \/ FaceCount
    \/ SetDiameter
    \/ NewRegularTiling
    \/ NewHexagonalTiling
    \/ NewVoronoiTiling
    \/ GeneratePattern
    \/ PatternRead
    \/ CreateTiling
    \/ HandleTilingQuery
    \/ ProcessQuery

Spec == Init /\ [][Next]_vars

\* ------------------------------------------------- the simplified Lambda
MaxShapes == 2

\* an absent argument
Absent == 0 - 1

\* validate_request_security: False answers 429
validate_request_security(event) ==
    IF event.oversized THEN FALSE
    ELSE IF event.httpMethod = "POST"
    THEN IF (IF event.dimensions = Absent THEN 0 ELSE event.dimensions) > 50
         THEN FALSE
         ELSE IF event.name = "compare_shapes" /\ Len(event.shapes) > 20
         THEN FALSE
         ELSE TRUE
    ELSE TRUE

\* the volumes the tool computes: the dimension count of each call of
\* calculate_hypersphere_volume or calculate_hypercube_volume
ToolVolumes(event) ==
    CASE event.name \in {"calculate_hypersphere", "calculate_hypercube"} ->
            <<IF event.dimensions = Absent THEN 3 ELSE event.dimensions>>
      [] event.name = "compare_shapes" ->
            [i \in 1..Len(event.shapes) |-> event.shapes[i].dimensions]
      [] OTHER -> <<>>

\* mcp_handler: the status answered and the volumes computed on the way
mcp_handler(event) ==
    IF ~validate_request_security(event)
    THEN [statusCode |-> 429, event |-> event, volumes |-> <<>>]
    ELSE IF event.httpMethod \in {"OPTIONS", "GET"}
    THEN [statusCode |-> 200, event |-> event, volumes |-> <<>>]
    ELSE IF event.httpMethod = "POST" /\ event.method = "tools/call"
    THEN [statusCode |-> 200, event |-> event, volumes |-> ToolVolumes(event)]
    ELSE IF event.httpMethod = "POST" /\ event.method = "tools/list"
    THEN [statusCode |-> 200, event |-> event, volumes |-> <<>>]
    ELSE [statusCode |-> 400, event |-> event, volumes |-> <<>>]

\* the shapes of a compare_shapes request
ShapeConfigs ==
    [dimensions : {3, 51}, type : {"hypersphere", "hypercube"}]

\* the requests: the method, the tool and its arguments
Events ==
    [dimensions : {Absent, 3, 50, 51},
     oversized : BOOLEAN,
     httpMethod : {"GET", "POST", "OPTIONS", "PUT"},
     name : {"calculate_hypersphere", "calculate_hypercube",
             "compare_shapes", "get_usage_statistics", "draw"},
     shapes : UNION {[1..n -> ShapeConfigs] : n \in 0..MaxShapes},
     method : {"tools/call", "tools/list", "initialize"}]

\* the fields of a request that are read on its way; the others are held
\* at their first value
Read(event) ==
    /\ event.httpMethod # "POST" =>
          /\ event.method = "tools/call"
          /\ event.name = "calculate_hypersphere"
          /\ event.dimensions = Absent
    /\ (event.httpMethod # "POST" \/ event.name # "compare_shapes") =>
          event.shapes = <<>>
    /\ (event.httpMethod = "POST" /\ event.method # "tools/call") =>
          event.name \in {"calculate_hypersphere", "compare_shapes"}

LambdaInit ==
    /\ shape = NoShape
    /\ pattern = NoPattern
    /\ call = Call("start", "direct", "returned", <<>>)
    /\ response = NoResponse
    /\ db = EmptyDb
    /\ tasks = <<>>

\* one invocation of the function
McpHandler ==
    \E event \in Events :
        /\ Read(event)
        /\ response' = mcp_handler(event)
        /\ UNCHANGED <<geometry, db, tasks>>

LambdaNext == McpHandler

SpecLambda == LambdaInit /\ [][LambdaNext]_vars

\* ------------------------------------------------------- the MCP server
\* calculate_hypersphere invocations run as coroutines on one event loop
\* and take turns at their awaits; every database call opens its own
\* connection, and SQLite lets one connection write at a time.
MaxTasks == 2

\* the execution times get_metrics may measure
Times == {10, 20}

Idle == [pc |-> "idle"]

\* (avg_execution_time_ms * (n - 1) + ?) / n of the two UPDATE statements,
\* with the values of the row before the statement; an average is held as
\* <<numerator, denominator>>
Averaged(avg, n, execution_time_ms) ==
    <<avg[1] * (n - 1) + execution_time_ms * avg[2], avg[2] * n>>

\* update_tool_stats: the INSERT of the else branch
tool_stats_insert(rows, execution_time_ms, success) ==
    Append(rows, [avg_execution_time_ms |-> <<execution_time_ms, 1>>,
                  failed_calls |-> IF success THEN 0 ELSE 1,
                  successful_calls |-> IF success THEN 1 ELSE 0,
                  total_calls |-> 1])

\* update_tool_stats: the UPDATE ... WHERE tool_name = ? AND date = ?
tool_stats_update(rows, execution_time_ms, success) ==
    [i \in 1..Len(rows) |->
        [avg_execution_time_ms |->
            Averaged(rows[i].avg_execution_time_ms, rows[i].total_calls,
                     execution_time_ms),
         failed_calls |-> rows[i].failed_calls + (IF success THEN 0 ELSE 1),
         successful_calls |->
            rows[i].successful_calls + (IF success THEN 1 ELSE 0),
         total_calls |-> rows[i].total_calls + 1]]

\* update_dimension_stats: INSERT ... ON CONFLICT ... DO UPDATE
dimension_stats_upsert(rows, execution_time_ms) ==
    IF rows = <<>>
    THEN <<[avg_execution_time_ms |-> <<execution_time_ms, 1>>,
            call_count |-> 1]>>
    ELSE <<[avg_execution_time_ms |->
                Averaged(rows[1].avg_execution_time_ms, rows[1].call_count,
                         execution_time_ms),
            call_count |-> rows[1].call_count + 1]>>

\* the task is at pc, which becomes to
Step(t, pc, to) ==
    /\ tasks[t].pc = pc
    /\ tasks' = [tasks EXCEPT ![t].pc = to]

\* a database call that the environment lets fail raises
Fails(t, pc) ==
    /\ tasks[t].pc = pc
    /\ tasks' = [tasks EXCEPT ![t].pc = "log_failure", ![t].io_error = TRUE]

\* the schema may or may not declare (tool_name, date) unique
ServerInit ==
    /\ shape = NoShape
    /\ pattern = NoPattern
    /\ call = Call("start", "direct", "returned", <<>>)
    /\ response = NoResponse
    /\ db \in {[EmptyDb EXCEPT !.unique = u] : u \in BOOLEAN}
    /\ tasks = [t \in 1..MaxTasks |-> Idle]

Active(t) == tasks[t].pc \notin {"idle", "returned", "raised"}

\* a client calls the tool: monitor.start_monitoring(), input_params
Invoke ==
    \E t \in 1..MaxTasks, dimensions \in {0, 3}, time \in Times :
        /\ tasks[t] = Idle
        /\ tasks' = [u \in 1..MaxTasks |->
                        IF u = t
                        THEN [dimensions |-> dimensions, pc |-> "calculate",
                              execution_time_ms |-> time, io_error |-> FALSE,
                              alone |-> \A v \in 1..MaxTasks : ~Active(v),
                              existing |-> FALSE]
                        ELSE IF Active(u)
                        THEN [tasks[u] EXCEPT !.alone = FALSE]
                        ELSE tasks[u]]
        /\ UNCHANGED <<geometry, response, db>>

\* HyperSphere(dimensions, radius) and the results dictionary
Calculate ==
    \E t \in 1..MaxTasks :
        /\ Step(t, "calculate",
                IF HyperSphere_init(tasks[t].dimensions, One).ok
                THEN "log_query" ELSE "log_failure")
        /\ UNCHANGED <<geometry, response, db>>

\* await self.db.log_query(..., success=True, ...)
LogQuery ==
    \E t \in 1..MaxTasks :
        /\ db.writer = 0
        /\ \/ /\ Step(t, "log_query", "select")
              /\ db' = [db EXCEPT !.query_logs =
                            Append(@, [success |-> TRUE, task |-> t])]
           \/ /\ Fails(t, "log_query")
              /\ db' = db
        /\ UNCHANGED <<geometry, response>>

\* update_tool_stats: the SELECT and fetchone
SelectToolStats ==
    \E t \in 1..MaxTasks :
        /\ tasks[t].pc = "select"
        /\ tasks' = [tasks EXCEPT ![t].pc = "write",
                                  ![t].existing = db.tool_usage_stats # <<>>]
        /\ UNCHANGED <<geometry, response, db>>

\* update_tool_stats: the UPDATE or the INSERT, which takes the write lock
\* (an INSERT of a second row for the key raises where the key is unique)
WriteToolStats ==
    \E t \in 1..MaxTasks :
        /\ tasks[t].pc = "write"
        /\ db.writer = 0
        /\ \/ /\ ~tasks[t].existing
              /\ db.unique
              /\ db.tool_usage_stats # <<>>
              /\ Step(t, "write", "log_failure")
              /\ db' = db
           \/ /\ tasks[t].existing \/ ~db.unique \/ db.tool_usage_stats = <<>>
              /\ Step(t, "write", "commit")
              /\ db' = [db EXCEPT !.writer = t]
        /\ UNCHANGED <<geometry, response>>

\* update_tool_stats: await conn.commit()
CommitToolStats ==
    \E t \in 1..MaxTasks :
        /\ db.writer = t
        /\ \/ /\ Step(t, "commit", "dimension")
              /\ db' = [db EXCEPT
                    !.writer = 0,
                    !.tool_usage_stats =
                        IF tasks[t].existing
                        THEN tool_stats_update(@, tasks[t].execution_time_ms,
                                               TRUE)
                        ELSE tool_stats_insert(@, tasks[t].execution_time_ms,
                                               TRUE)]
           \/ /\ Fails(t, "commit")
              /\ db' = [db EXCEPT !.writer = 0]
        /\ UNCHANGED <<geometry, response>>

\* await self.db.update_dimension_stats(...), then return results
UpdateDimensionStats ==
    \E t \in 1..MaxTasks :
        /\ db.writer = 0
        /\ \/ /\ Step(t, "dimension", "returned")
              /\ db' = [db EXCEPT !.dimension_stats =
                            dimension_stats_upsert(@, tasks[t].execution_time_ms)]
           \/ /\ Fails(t, "dimension")
              /\ db' = db
        /\ UNCHANGED <<geometry, response>>

\* except Exception: await self.db.log_query(..., success=False, ...); an
\* exception raised here leaves the handler at once
LogFailure ==
    \E t \in 1..MaxTasks :
        /\ db.writer = 0
        /\ \/ /\ Step(t, "log_failure", "log_error")
              /\ db' = [db EXCEPT !.query_logs =
                            Append(@, [success |-> FALSE, task |-> t])]
           \/ /\ tasks[t].pc = "log_failure"
              /\ tasks' = [tasks EXCEPT ![t].pc = "raised",
                                        ![t].io_error = TRUE]
              /\ db' = db
        /\ UNCHANGED <<geometry, response>>

\* await self.db.log_error(...), then raise
LogError ==
    \E t \in 1..MaxTasks :
        /\ db.writer = 0
        /\ Step(t, "log_error", "raised")
        /\ UNCHANGED <<geometry, response, db>>

ServerNext ==
    \/ Invoke
    \/ Calculate
    \/ LogQuery
    \/ SelectToolStats
    \/ WriteToolStats
    \/ CommitToolStats
    \/ UpdateDimensionStats
    \/ LogFailure
    \/ LogError

SpecServer == ServerInit /\ [][ServerNext]_vars

\* ----------------------------------------------------------------- claims
Positions(tiles) == [i \in 1..Len(tiles) |-> tiles[i].position]

\* the live pattern as its constructor left it
Fresh(p) == [p EXCEPT !.tiles = <<>>, !.bounds = <<>>, !.bounds_none = TRUE]

WellFormed(bounds, n) ==
    /\ Len(bounds) = n
    /\ \A i \in 1..n : Len(bounds[i]) = 2

\* C1: a generate_pattern call that raises on a pattern holding the tiles
\* of an earlier successful call leaves those tiles as they were.
C1_FailedCallKeepsTiles ==
    [][(/\ call.op = "generate_pattern"
        /\ call.how = "returned"
        /\ pattern.tiles # <<>>
        /\ call'.op = "generate_pattern"
        /\ call'.how = "raised") => pattern'.tiles = pattern.tiles]_vars

\* floor((max - min) / spacing) + 1 with spacing = side_length / density,
\* each operation in floating point as the expression is written
GridPointsFloat(lo, hi, side_length, density) ==
    Floor(Div(Sub(hi, lo), Div(side_length, density))) + 1

\* the same with the quotient (max - min) * density / side_length taken
\* exactly
GridPointsExact(lo, hi, side_length, density) ==
    LET td == TrailZ(density)
        ts == TrailZ(side_length)
        e  == td - ts - FracBits
        n  == (hi - lo) * (density \div (2 ^ td))
        d  == side_length \div (2 ^ ts)
    IN  (IF e >= 0 THEN (n * (2 ^ e)) \div d ELSE n \div (d * (2 ^ (0 - e)))) + 1

RECURSIVE GridCount(_, _, _, _)
GridCount(exact, bounds, side_length, density) ==
    IF bounds = <<>> THEN 1
    ELSE (IF exact
          THEN GridPointsExact(Head(bounds)[1], Head(bounds)[2], side_length,
                               density)
          ELSE GridPointsFloat(Head(bounds)[1], Head(bounds)[2], side_length,
                               density))
         * GridCount(exact, Tail(bounds), side_length, density)

CubeGridCase ==
    /\ call.gen = "returned"
    /\ pattern.pattern_type = "regular"
    /\ isinstance(pattern.base_shape, "HyperCube")
    /\ WellFormed(call.bounds, pattern.dimensions)
    /\ \A i \in 1..Len(call.bounds) : call.bounds[i][1] < call.bounds[i][2]
    /\ call.density > 0

\* C2: on a cube-based regular tiling, over n intervals with min < max and
\* a density > 0, the tile count is the product over the axes of
\* floor((max - min) / spacing) + 1, spacing = side_length / density
\* (whether the quotient is taken exactly or in floating point).
C2_CubeTileCountIsGridCount ==
    CubeGridCase =>
        \/ Len(pattern.tiles) =
             GridCount(FALSE, call.bounds,
                       pattern.base_shape.side_length, call.density)
        \/ Len(pattern.tiles) =
             GridCount(TRUE, call.bounds,
                       pattern.base_shape.side_length, call.density)

\* C3: after a successful generate_pattern call the tiles are exactly the
\* ones that call produces on a pattern holding none, and the stored
\* bounds are the ones passed to it: nothing of an earlier call remains.
C3_LastCallReplacesTilesAndBounds ==
    (call.gen = "returned" /\ pattern # NoPattern) =>
        /\ pattern.tiles =
             generate_pattern(Fresh(pattern), call.bounds, call.density).self.tiles
        /\ get_tile_count(pattern) =
             Len(generate_pattern(Fresh(pattern), call.bounds,
                                  call.density).self.tiles)
        /\ ~pattern.bounds_none
        /\ pattern.bounds = call.bounds

\* a successful call that followed a different call on a pattern, and left
\* tiles
C3_Witness ==
    /\ call.op = "generate_pattern"
    /\ call.how = "returned"
    /\ call.prior = "other"
    /\ pattern.pattern_type = "hexagonal"
    /\ pattern.tiles # <<>>

\* C4: the tile positions a generate_pattern call leaves are, in number
\* and order, those the same bounds and density (and, for Voronoi, seed
\* points) give on the pattern as constructed, whatever calls were made on
\* it before: two calls with the same arguments agree whatever came before
\* or between them, and a call repeated at once leaves what it found.
C4_SameCallSameTiles ==
    [][(call'.op = "generate_pattern" /\ call'.how = "returned") =>
          /\ \A fresh \in {generate_pattern(Fresh(pattern), call'.bounds,
                                             call'.density).self.tiles} :
                Positions(pattern'.tiles) = Positions(fresh)
          /\ call'.prior = "same" =>
                /\ Len(pattern'.tiles) = Len(pattern.tiles)
                /\ Positions(pattern'.tiles) = Positions(pattern.tiles)]_vars

C4_Witness ==
    /\ call.op = "generate_pattern"
    /\ call.how = "returned"
    /\ call.prior = "same"
    /\ pattern.pattern_type = "voronoi"
    /\ Len(pattern.tiles) > 1

\* C5: generate_pattern with a positive density on a pattern its
\* constructor accepted makes a bounded number of loop iterations and
\* returns (or raises): it never loops without end.
C5_GeneratePatternEnds ==
    (call.gen # "none" /\ call.density > 0) => call.gen # "diverges"

\* C6: whatever generate_pattern calls were made on a pattern,
\* get_coverage_efficiency() returns a value in [0, 1].
C6_CoverageWithinUnitInterval ==
    (pattern # NoPattern /\ Running) =>
        /\ get_coverage_efficiency(pattern).ok
        /\ get_coverage_efficiency(pattern).val >= 0
        /\ get_coverage_efficiency(pattern).val <= One

\* the region of the last call is smaller than one spacing unit on every
\* axis, spacing = base spacing / density
SmallRegionCase ==
    /\ call.gen = "returned"
    /\ pattern.pattern_type = "regular"
    /\ WellFormed(call.bounds, pattern.dimensions)
    /\ call.density > 0
    /\ \A i \in 1..Len(call.bounds) :
          Sub(call.bounds[i][2], call.bounds[i][1])
            < Div(pattern.spacing, call.density)

\* C7 as stated: a region smaller than one spacing unit gets zero tiles.
C7_SmallRegionNoTiles == SmallRegionCase => pattern.tiles = <<>>

\* the base shapes generate_pattern lays out: cubes, simplices and spheres
\* in 2D, cubes and spheres in 3D, every shape in any other dimension
HasLayout(p) ==
    CASE p.dimensions = 2 ->
            \/ isinstance(p.base_shape, "HyperCube")
            \/ isinstance(p.base_shape, "Simplex")
            \/ isinstance(p.base_shape, "HyperSphere")
      [] p.dimensions = 3 ->
            \/ isinstance(p.base_shape, "HyperCube")
            \/ isinstance(p.base_shape, "HyperSphere")
      [] OTHER -> TRUE

\* C7 amended: a region smaller than one spacing unit on every axis gets
\* zero tiles only where an axis has min > max or the base shape has no
\* layout in that dimension; otherwise it gets at least one tile, the
\* first of them at the corner (min_1, ..., min_n).
C7_SmallRegionCornerTile ==
    SmallRegionCase =>
        IF /\ HasLayout(pattern)
           /\ \A i \in 1..Len(call.bounds) :
                 call.bounds[i][1] <= call.bounds[i][2]
        THEN /\ Len(pattern.tiles) >= 1
             /\ pattern.tiles[1].position =
                  [i \in 1..Len(call.bounds) |-> call.bounds[i][1]]
        ELSE pattern.tiles = <<>>

C7_Witness ==
    /\ SmallRegionCase
    /\ isinstance(pattern.base_shape, "HyperCube")
    /\ \A i \in 1..Len(call.bounds) : call.bounds[i][1] < call.bounds[i][2]
    /\ Len(pattern.tiles) = 1

\* C8: a pattern on which generate_pattern returned - called directly, by
\* POST /api/tiling or by the agent's tiling handler - stores as many
\* bounds as it has dimensions, with min < max on every axis.
C8_StoredBoundsWellFormed ==
    (call.gen = "returned" /\ pattern # NoPattern) =>
        /\ Len(pattern.bounds) = pattern.dimensions
        /\ \A i \in 1..Len(pattern.bounds) :
              pattern.bounds[i][1] < pattern.bounds[i][2]

\* C9: constructing a HyperSphere, HyperCube or Simplex with a dimension
\* count <= 0 or a radius or side length <= 0 raises and leaves no object.
C9_NonPositiveArgumentsRaise ==
    (/\ call.op = "construct"
     /\ call.args.cls \in {"HyperSphere", "HyperCube", "Simplex"}
     /\ (call.args.dimensions <= 0 \/ call.args.parameters[1] <= 0))
    => (call.how = "raised" /\ shape = NoShape)

ShapeMethods == ReadMethods \cup {"set_diameter"}

\* C10 as stated: no public method call changes a constructed shape's
\* dimension count or parameters.
C10_ShapeNeverChanges ==
    [][(call'.op \in ShapeMethods) => shape' = shape]_vars

\* C10 amended: no public method call changes a shape's dimension count,
\* and none but OriginalSphere.set_diameter changes its parameters; a
\* set_diameter(d) that raises (d < 0) changes nothing, one that returns
\* sets diameter to d, radius to d / 2 and parameters to [d / 2].
C10_OnlySetDiameterChangesShape ==
    [][/\ (call'.op \in ReadMethods) => shape' = shape
       /\ (call'.op = "set_diameter") =>
            /\ shape'.dimensions = shape.dimensions
            /\ shape'.cls = shape.cls
            /\ call'.how = "raised" =>
                  (call'.args.new_diameter < 0 /\ shape' = shape)
            /\ call'.how = "returned" =>
                  /\ shape'.diameter = call'.args.new_diameter
                  /\ shape'.radius = Div(call'.args.new_diameter, Two)
                  /\ shape'.parameters = <<shape'.radius>>]_vars

\* a set_diameter call that changed the sphere
C10_Witness ==
    /\ call.op = "set_diameter"
    /\ call.how = "returned"
    /\ shape.diameter = 0
    /\ shape.parameters = <<0>>

\* C11: get_tile_count, get_coverage_efficiency, get_pattern_properties and
\* analyze_pattern leave the pattern exactly as it was, and no call on a
\* live pattern other than generate_pattern changes its tiles or its stored
\* bounds.
C11_OnlyGeneratePatternChangesTiles ==
    [][/\ call'.op \in PatternReadMethods => pattern' = pattern
       /\ (/\ pattern # NoPattern
           /\ pattern' # NoPattern
           /\ call'.op \notin {"generate_pattern", "new_pattern"}) =>
              /\ pattern'.tiles = pattern.tiles
              /\ pattern'.bounds = pattern.bounds
              /\ pattern'.bounds_none = pattern.bounds_none]_vars

\* the analyzer has run on a pattern that holds tiles
C11_Witness ==
    /\ call.op = "analyze_pattern"
    /\ call.how = "returned"
    /\ pattern.tiles # <<>>

\* the analyzer has run on a pattern on which generate_pattern was never
\* called (self.bounds is still None)
NeverGeneratedCase ==
    /\ call.op = "analyze_pattern"
    /\ pattern.bounds_none

\* C12: on a pattern of any type on which generate_pattern has never been
\* called, analyze_pattern returns and reports coverage_efficiency = 0 and
\* tile_density = 0.
C12_NeverGeneratedReportsZero ==
    NeverGeneratedCase =>
        /\ call.how = "returned"
        /\ call.args.result.coverage_efficiency = 0
        /\ call.args.result.tile_density = 0

\* C12 as amended: on such a pattern analyze_pattern returns and reports
\* tile_density = 0, and coverage_efficiency = 0 for a regular pattern and
\* 1.0 for a hexagonal or Voronoi pattern.
C12_NeverGeneratedReport ==
    NeverGeneratedCase =>
        /\ call.how = "returned"
        /\ call.args.result.tile_density = 0
        /\ call.args.result.coverage_efficiency =
              (IF pattern.pattern_type = "regular" THEN 0 ELSE One)
        /\ call.args.result.basic_properties.coverage_efficiency =
              call.args.result.coverage_efficiency
        /\ call.args.result.basic_properties.tile_count = 0

C12_Witness ==
    /\ NeverGeneratedCase
    /\ pattern.pattern_type = "hexagonal"
    /\ call.args.result.coverage_efficiency = One

\* C13: get_coverage_efficiency of a hexagonal or Voronoi pattern returns
\* exactly 1.0 in every state of the pattern.
C13_HexagonalAndVoronoiCoverageIsOne ==
    (pattern # NoPattern /\ pattern.pattern_type \in {"hexagonal", "voronoi"}) =>
        /\ get_coverage_efficiency(pattern) = [ok |-> TRUE, val |-> One]
        /\ call.op = "get_coverage_efficiency" =>
              call.how = "returned" /\ call.args.result = One

\* the method has been called on a hexagonal pattern that holds no tiles
\* after a generate_pattern call
C13_Witness ==
    /\ call.op = "get_coverage_efficiency"
    /\ pattern.pattern_type = "hexagonal"
    /\ ~pattern.bounds_none
    /\ pattern.tiles = <<>>

\* a Voronoi request that POST /api/tiling answered with 200
VoronoiAnswered ==
    /\ call.op = "create_tiling"
    /\ call.args.status = 200
    /\ call.args.request.tiling_type = "voronoi"

\* generate_pattern has returned on a Voronoi pattern, whoever called it
VoronoiGenerated ==
    /\ call.gen = "returned"
    /\ pattern # NoPattern
    /\ pattern.pattern_type = "voronoi"

\* C14: after VoronoiTiling.generate_pattern the tile count is the number
\* of seed points, and a successful Voronoi request to POST /api/tiling
\* returns as many tiles as seed points were supplied, or as
\* num_random_seeds asks for where none was supplied.
C14_VoronoiTileCountIsSeedCount ==
    /\ VoronoiGenerated => get_tile_count(pattern) = Len(pattern.seed_points)
    /\ VoronoiAnswered =>
          get_tile_count(pattern) =
            (IF call.args.request.seed_points # <<>>
             THEN Len(call.args.request.seed_points)
             ELSE call.args.request.num_random_seeds)

\* a request for two random seeds was answered with two tiles
C14_Witness ==
    /\ VoronoiAnswered
    /\ call.args.request.seed_points = <<>>
    /\ call.args.request.num_random_seeds = 2
    /\ get_tile_count(pattern) = 2

\* C15: VoronoiTiling.generate_pattern produces its tiles in seed input
\* order: tile number i carries seed_index = i (counted from 0) and the
\* i-th seed point as its position, exactly as supplied.
C15_VoronoiTilesInSeedOrder ==
    /\ VoronoiGenerated =>
          \A i \in 1..Len(pattern.seed_points) :
              /\ i <= Len(pattern.tiles)
              /\ pattern.tiles[i].seed_index = i - 1
              /\ pattern.tiles[i].position = pattern.seed_points[i]
    /\ (VoronoiAnswered /\ call.args.request.seed_points # <<>>) =>
          Positions(pattern.tiles) = call.args.request.seed_points

\* two different seed points were supplied and two tiles produced
C15_Witness ==
    /\ VoronoiAnswered
    /\ Len(call.args.request.seed_points) = 2
    /\ call.args.request.seed_points[1] # call.args.request.seed_points[2]
    /\ pattern.tiles[2].seed_index = 1

\* POST /api/tiling has handled a request of the given tiling_type
Requested(tiling_type) ==
    /\ call.op = "create_tiling"
    /\ call.args.request.tiling_type = tiling_type

\* the handler answered 400 with the given message and built no pattern
RejectedWith(detail) ==
    /\ call.args.status = 400
    /\ call.args.detail = detail
    /\ call.gen = "none"
    /\ pattern = NoPattern

\* the request carries one (min, max) pair for each of its dimensions
BoundsMatch(request) == WellFormed(request.bounds, request.dimensions)

NoSeedSource ==
    /\ Requested("voronoi")
    /\ call.args.request.seed_points = <<>>
    /\ call.args.request.num_random_seeds = 0

InvalidCombination(request) ==
    \/ Len(request.bounds) # request.dimensions
    \/ request.tiling_type \notin {"regular", "hexagonal", "voronoi"}
    \/ /\ request.tiling_type = "regular"
       /\ \/ request.shape_type = ""
          \/ request.shape_size = 0 /\ request.parameter = 0
    \/ /\ request.tiling_type \in {"hexagonal", "voronoi"}
       /\ request.dimensions # 2
    \/ /\ request.tiling_type = "voronoi"
       /\ request.seed_points = <<>>
       /\ request.num_random_seeds = 0

\* C18: a request to POST /api/tiling that is an invalid combination, or
\* whose generation or analysis raises, is answered with 400 and the
\* error message as detail, never with 200 or a 5xx status.
C18_InvalidRequestsAnswered400 ==
    (/\ call.op = "create_tiling"
     /\ \/ InvalidCombination(call.args.request)
        \/ call.gen = "raised"
        \/ call.gen = "returned" /\ analyze_pattern_raises(pattern)) =>
        /\ call.how = "returned"
        /\ call.args.status = 400
        /\ call.args.detail # ""
        /\ InvalidCombination(call.args.request) => call.gen = "none"

\* an unknown tiling type, and an analysis that raised, were answered
C18_Witness ==
    /\ call.op = "create_tiling"
    /\ call.args.status = 400
    /\ \/ call.args.request.tiling_type = "penrose"
       \/ call.gen = "returned" /\ analyze_pattern_raises(pattern)

\* analyze_pattern has returned its report of the pattern
Analyzed ==
    /\ call.op = "analyze_pattern"
    /\ call.how = "returned"

\* the coordination number the report carries
ReportedCoordination ==
    call.args.result.mathematical_properties.coordination_number

\* C19: analyze_pattern reports coordination_number 6 for a hexagonal
\* pattern, 2 x dimensions for a regular pattern over a HyperCube,
\* dimensions + 1 for a regular pattern over a Simplex and 4 for every
\* other pattern, whatever tiles were generated.
C19_CoordinationNumber ==
    Analyzed =>
        /\ pattern.pattern_type = "hexagonal" => ReportedCoordination = 6
        /\ pattern.pattern_type = "voronoi" => ReportedCoordination = 4
        /\ pattern.pattern_type = "regular" =>
              ReportedCoordination =
                CASE pattern.base_shape.cls = "HyperCube" ->
                        2 * pattern.dimensions
                  [] pattern.base_shape.cls = "Simplex" ->
                        pattern.dimensions + 1
                  [] OTHER -> 4

\* a simplex-based regular pattern with tiles was analysed
C19_Witness ==
    /\ Analyzed
    /\ pattern.pattern_type = "regular"
    /\ pattern.base_shape.cls = "Simplex"
    /\ pattern.tiles # <<>>
    /\ ReportedCoordination = pattern.dimensions + 1

\* the densities a returned generation is compared with
LowerDensities == {Flt(1, 4), Half, One, Flt(3, 2), Two, FromInt(3), FromInt(4)}

\* generate_pattern has returned on a cube-based RegularTiling
CubeTilingGenerated ==
    /\ call.op = "generate_pattern"
    /\ call.how = "returned"
    /\ pattern.pattern_type = "regular"
    /\ isinstance(pattern.base_shape, "HyperCube")

\* C20: for a cube-based RegularTiling over fixed bounds, a higher density
\* never produces fewer tiles: for densities 0 < d1 < d2 the tile count
\* after generate_pattern(bounds, d2) is at least that after
\* generate_pattern(bounds, d1).
C20_HigherDensityNoFewerTiles ==
    CubeTilingGenerated =>
        \A d1 \in LowerDensities :
            (/\ 0 < d1
             /\ d1 < call.density
             /\ RegularTiling_generate_pattern(pattern, call.bounds, d1).how
                    = "returned") =>
                Len(RegularTiling_generate_pattern(pattern, call.bounds,
                                                   d1).self.tiles)
                    <= Len(pattern.tiles)

\* a generation at density 5 that left more tiles than one at density 1
C20_Witness ==
    /\ CubeTilingGenerated
    /\ call.density = FromInt(5)
    /\ RegularTiling_generate_pattern(pattern, call.bounds, One).how
            = "returned"
    /\ Len(RegularTiling_generate_pattern(pattern, call.bounds,
                                          One).self.tiles)
            < Len(pattern.tiles)

\* C21: for a cube-based RegularTiling over fixed bounds,
\* get_coverage_efficiency() after generate_pattern(bounds, d1) equals
\* get_coverage_efficiency() after generate_pattern(bounds, d2) for all
\* positive densities d1 and d2.
C21_CoverageIndependentOfDensity ==
    CubeTilingGenerated =>
        \A d1 \in LowerDensities :
            RegularTiling_generate_pattern(pattern, call.bounds, d1).how
                    = "returned" =>
                get_coverage_efficiency(
                    RegularTiling_generate_pattern(pattern, call.bounds,
                                                   d1).self)
                    = get_coverage_efficiency(pattern)

\* process_query was given a command of the help text's tiling section
HelpCommandGiven ==
    /\ call.op = "process_query"
    /\ call.args.query \in HelpCommands

\* the kind of report the command asks for
RequestedHeading(keys) ==
    IF "hexagonal" \in keys THEN "Hexagonal Tiling Pattern"
    ELSE IF "voronoi" \in keys THEN "Voronoi Tiling Pattern"
    ELSE "Regular Tiling Pattern"

\* C22: every tiling command of the help text, with its numbers or with
\* others, is dispatched by process_query to the tiling handler and
\* answered with a generated tiling pattern report of the requested kind.
C22_HelpCommandsAnswered ==
    HelpCommandGiven =>
        /\ call.args.handler = "tiling"
        /\ call.gen = "returned"
        /\ call.args.text = RequestedHeading(call.args.query.keys)

\* C23: for every query string, process_query terminates and returns a
\* string: it never raises to the caller and never runs forever, also
\* for tiling queries whose extracted side length, density or bounds are
\* zero or degenerate.
C23_ProcessQueryReturns ==
    call.op \in {"process_query", "handle_tiling_query"} =>
        call.how = "returned"

\* generate_pattern has returned on a RegularTiling over a cube, sphere or
\* simplex of positive size, called with min < max on every axis and a
\* positive density
RegularCase ==
    /\ call.gen = "returned"
    /\ pattern.pattern_type = "regular"
    /\ \/ isinstance(pattern.base_shape, "HyperCube")
       \/ isinstance(pattern.base_shape, "HyperSphere")
       \/ isinstance(pattern.base_shape, "Simplex")
    /\ pattern.spacing > 0
    /\ WellFormed(call.bounds, pattern.dimensions)
    /\ \A i \in 1..Len(call.bounds) : call.bounds[i][1] < call.bounds[i][2]
    /\ call.density > 0

\* C24: for each supported base shape (cube, sphere, simplex) of positive
\* size and every dimension count n >= 1, generate_pattern over bounds with
\* min < max on every axis and a positive density places at least one
\* tile.
C24_RegularTilingPlacesATile == RegularCase => Len(pattern.tiles) >= 1

\* C25: for every pattern type, every tile produced by
\* generate_pattern(bounds, density) has a position inside the bound
\* region passed to that call: min_i <= position_i <= max_i on every
\* axis i.
C25_TilesInsideBounds ==
    (call.gen = "returned" /\ pattern # NoPattern) =>
        \A k \in 1..Len(pattern.tiles) :
            \A i \in 1..Len(pattern.tiles[k].position) :
                (i <= Len(call.bounds) /\ Len(call.bounds[i]) = 2) =>
                    /\ LessEq(call.bounds[i][1], pattern.tiles[k].position[i])
                    /\ LessEq(pattern.tiles[k].position[i], call.bounds[i][2])

\* the number of j-element subsets of an m-element set
RECURSIVE Subsets(_, _)
Subsets(m, j) ==
    IF j < 0 \/ j > m THEN 0
    ELSE IF j = 0 \/ j = m THEN 1
    ELSE Subsets(m - 1, j - 1) + Subsets(m - 1, j)

\* the j-dimensional faces of an m-dimensional hypercube
CubeFaces(m, j) ==
    IF j < 0 \/ j > m THEN 0 ELSE Subsets(m, j) * 2 ^ (m - j)

\* the k-dimensional faces of an n-dimensional pyramid over an
\* (n-1)-dimensional hypercube: those of the base, and one through the
\* apex for each (k-1)-face of the base (the apex itself for k = 0)
PyramidFaces(n, k) ==
    IF k = n THEN 1
    ELSE CubeFaces(n - 1, k) + (IF k = 0 THEN 1 ELSE CubeFaces(n - 1, k - 1))

\* C26: for a HyperPyramid of dimension n >= 1 and 0 <= k <= n,
\* get_face_count(k) is the number of k-dimensional faces of an
\* n-dimensional pyramid over an (n-1)-dimensional hypercube; in
\* particular get_face_count(0) = get_vertex_count() and
\* get_face_count(1) = get_edge_count().
C26_FaceCount ==
    (/\ call.op = "get_face_count"
     /\ call.args.k >= 0
     /\ call.args.k <= shape.dimensions) =>
        /\ call.args.result = PyramidFaces(shape.dimensions, call.args.k)
        /\ call.args.k = 0 =>
              call.args.result = HyperPyramid_get_vertex_count(shape)
        /\ call.args.k = 1 =>
              call.args.result = HyperPyramid_get_edge_count(shape)

\* C27: the simplified Lambda handler never performs a shape calculation
\* for more than 50 dimensions: every POST tools/call request in which a
\* shape to be calculated has dimensions > 50, given as the top-level
\* dimensions argument or inside the shapes list of compare_shapes, is
\* answered with 429 before any volume is computed.
C27_NoVolumeBeyond50Dimensions ==
    response # NoResponse =>
        /\ \A i \in 1..Len(response.volumes) : response.volumes[i] <= 50
        /\ (/\ response.event.httpMethod = "POST"
            /\ response.event.method = "tools/call"
            /\ \/ /\ response.event.name \in {"calculate_hypersphere",
                                              "calculate_hypercube"}
                  /\ response.event.dimensions > 50
               \/ /\ response.event.name = "compare_shapes"
                  /\ \E i \in 1..Len(response.event.shapes) :
                        response.event.shapes[i].dimensions > 50) =>
              response.statusCode = 429

\* the query_logs rows an invocation wrote
RowsOf(t) == {i \in 1..Len(db.query_logs) : db.query_logs[i].task = t}

\* C28: every invocation of an MCP calculation tool writes exactly one
\* query_logs row, whose success flag is true exactly when the tool
\* returns a result and false exactly when it raises, also when a logging
\* or statistics step fails after the calculation succeeded.
C28_OneQueryLogRowPerInvocation ==
    \A t \in DOMAIN tasks :
        tasks[t].pc \in {"returned", "raised"} =>
            /\ Cardinality(RowsOf(t)) = 1
            /\ \A i \in RowsOf(t) :
                  db.query_logs[i].success = (tasks[t].pc = "returned")

AllDone == \A t \in DOMAIN tasks : tasks[t].pc \in {"returned", "raised"}

\* no database call failed for a reason outside the program
NoIoError == \A t \in DOMAIN tasks : tasks[t].pc # "idle" => ~tasks[t].io_error

\* the invocations that called update_tool_stats: those whose
\* log_query(success=True) went through
StatsCalls == {t \in DOMAIN tasks : \E i \in RowsOf(t) : db.query_logs[i].success}

\* C29: when several update_tool_stats calls for the same tool name and
\* date interleave at their awaits, tool_usage_stats ends with exactly one
\* row for the tool and date, whose total_calls is the number of calls
\* made and equals successful_calls + failed_calls.
C29_ConcurrentToolStatsCountEveryCall ==
    (AllDone /\ NoIoError /\ StatsCalls # {}) =>
        /\ Len(db.tool_usage_stats) = 1
        /\ db.tool_usage_stats[1].total_calls = Cardinality(StatsCalls)
        /\ db.tool_usage_stats[1].total_calls =
              db.tool_usage_stats[1].successful_calls
                  + db.tool_usage_stats[1].failed_calls

\* every invocation ran from its first step to its last with no other
\* invocation under way
Sequential == \A t \in DOMAIN tasks : tasks[t].pc # "idle" => tasks[t].alone

RECURSIVE TotalTime(_)
TotalTime(S) ==
    IF S = {} THEN 0
    ELSE LET t == CHOOSE u \in S : TRUE
         IN  tasks[t].execution_time_ms + TotalTime(S \ {t})

\* avg is the arithmetic mean of the times of the calls in S
IsMean(avg, S) == avg[1] * Cardinality(S) = TotalTime(S) * avg[2]

\* C30: after n >= 1 update_tool_stats calls for one tool name and date,
\* made one after the other (and likewise update_dimension_stats calls for
\* one key), the stored avg_execution_time_ms is the arithmetic mean of
\* the n execution times passed in.
C30_StoredAverageIsTheMean ==
    (AllDone /\ NoIoError /\ Sequential /\ StatsCalls # {}) =>
        /\ \A i \in 1..Len(db.tool_usage_stats) :
              IsMean(db.tool_usage_stats[i].avg_execution_time_ms, StatsCalls)
        /\ \A i \in 1..Len(db.dimension_stats) :
              IsMean(db.dimension_stats[i].avg_execution_time_ms, StatsCalls)

====
